---- MODULE Spec2Model ----
(***************************************************************************)
(* Clean-Energy-Predictor: the forecast pipeline of                        *)
(* backend/app/services/prediction/prediction_service_old.py (the last,    *)
(* effective definitions of the file, lines 377-569) as a state machine,   *)
(* and its pure helpers applied to enumerated inputs.                      *)
(*                                                                         *)
(* Numbers.  Cleanliness scores are floats rounded to one decimal: they    *)
(* are kept as integers in tenths (100.0 is 1000).  Means and kg figures   *)
(* are exact rationals <<num, den>> with den > 0; the float NaN is the     *)
(* pair <<0, 0>> for a rational and the value NaN for a score.  Every      *)
(* comparison with a NaN is false, as in IEEE 754.  Binary rounding error  *)
(* of float sums is not modelled.                                          *)
(* Timestamps are whole hours since an epoch, in UTC; DateOf gives the     *)
(* calendar day.                                                           *)
(***************************************************************************)
EXTENDS Integers, Sequences, FiniteSets, TLC

VARIABLES
    pc,             \* position of generate_predictions
    req,            \* its arguments: [day, duration_hours]
    forecast_req,   \* forecast_days sent to the weather service (0: not called)
    df_proc,        \* the data frame, a sequence of rows
    scores,         \* df_proc["cleanliness_score"].tolist() at window selection
    best_start_idx, \* 0-based, as in the code
    best_avg,       \* rational
    best_block,     \* df_proc.iloc[best_start_idx : best_start_idx + duration_hours]
    impact,         \* the dict calculate_impact returned
    response,       \* the dict generate_predictions returned
    error,          \* the HTTPException that left generate_predictions
    raised,         \* the exception raised inside its try block
    weather_df,     \* the frame get_weather_forecast returned (never re-bound)
    calls,          \* the upstream services called so far, in order
    call,           \* a helper function applied to one input (SpecFn)
    bundle,         \* the module-level model and features (SpecConc)
    procs           \* the invocations of generate_predictions in progress (SpecConc)

rvars == <<pc, req, forecast_req, df_proc, scores, best_start_idx, best_avg,
           best_block, impact, response, error, raised, weather_df, calls>>
cvars == <<bundle, procs>>
pvars == <<rvars, cvars>>
vars == <<rvars, call, cvars>>

-----------------------------------------------------------------------------
(* Bounds of the model *)

MaxRows == 4          \* hourly rows in a weather payload
MaxRaw == 2           \* raw model scores range over -1 .. MaxRaw
MaxDay == 2           \* requested days range over 0 .. MaxDay
MaxDuration == 3      \* duration_hours ranges over 1 .. MaxDuration

(* Program constants *)

HoursPerDay == 24
MaxForecastDays == 7
FullHorizon == 168

RawScores == (0 - 1) .. MaxRaw
FirstHours == {0, HoursPerDay - 1}   \* first timestamp of a payload

-----------------------------------------------------------------------------
(* Arithmetic helpers *)

Min(a, b) == IF a <= b THEN a ELSE b
Max(a, b) == IF a >= b THEN a ELSE b

\* numpy/Python round: to the nearest integer, ties to even; den > 0.
RoundHalfEven(num, den) ==
    LET q == num \div den
        r == num % den
    IN  IF 2 * r < den THEN q
        ELSE IF 2 * r > den THEN q + 1
        ELSE IF q % 2 = 0 THEN q ELSE q + 1

NaN == -1000000
IsNaN(x) == x = NaN

RNaN == <<0, 0>>
RIsNaN(a) == a[2] = 0
\* a > b on floats: false when either side is NaN
RGt(a, b) == ~RIsNaN(a) /\ ~RIsNaN(b) /\ a[1] * b[2] > b[1] * a[2]
REq(a, b) == ~RIsNaN(a) /\ ~RIsNaN(b) /\ a[1] * b[2] = b[1] * a[2]
RSub(a, b) ==
    IF RIsNaN(a) \/ RIsNaN(b) THEN RNaN
    ELSE <<a[1] * b[2] - b[1] * a[2], a[2] * b[2]>>

DateOf(ts) == ts \div HoursPerDay

RECURSIVE SeqMax(_)
SeqMax(s) == IF Len(s) = 1 THEN s[1] ELSE Max(s[1], SeqMax(Tail(s)))
RECURSIVE SeqMin(_)
SeqMin(s) == IF Len(s) = 1 THEN s[1] ELSE Min(s[1], SeqMin(Tail(s)))

\* sum(scores[i:j]) with Python's 0-based, end-clipped slice; in tenths, or NaN
RECURSIVE SumSlice(_, _, _)
SumSlice(s, i, j) ==
    IF i >= Min(j, Len(s)) THEN 0
    ELSE LET rest == SumSlice(s, i + 1, j)
         IN  IF IsNaN(s[i + 1]) \/ IsNaN(rest) THEN NaN ELSE s[i + 1] + rest

\* sum(xs) / n as a float: xs in tenths
Mean(sum, n) == IF IsNaN(sum) THEN RNaN ELSE <<sum, 10 * n>>

-----------------------------------------------------------------------------
(* get_weather_forecast: the horizon sent to the weather service *)

\* mutation: the cap at 7 days is missing
forecast_days_uncapped(hours_ahead) == (hours_ahead \div HoursPerDay) + 1

forecast_days(hours_ahead) ==
    Min((hours_ahead \div HoursPerDay) + 1, MaxForecastDays)

-----------------------------------------------------------------------------
(* Normalisation of the raw model scores to the 0-100 scale *)

\* mutation: min_score is not subtracted from the row's score
NormalizeScoreUnshifted(raw, min_score, max_score) ==
    IF max_score - min_score = 0 THEN NaN
    ELSE RoundHalfEven(raw * 1000, max_score - min_score)

\* ((predicted_score - min_score) / (max_score - min_score) * 100).round(1),
\* in tenths; 0/0 is NaN and stays NaN through * 100 and round
NormalizeScore(raw, min_score, max_score) ==
    IF max_score - min_score = 0 THEN NaN
    ELSE RoundHalfEven((raw - min_score) * 1000, max_score - min_score)

Normalize(raws) ==
    LET max_score == SeqMax(raws)
        min_score == SeqMin(raws)
    IN  [k \in 1 .. Len(raws) |-> NormalizeScore(raws[k], min_score, max_score)]

-----------------------------------------------------------------------------
(* Window search *)

InitialBestAvg == <<0 - 1, 1>>

\* mutation: >= in place of >, so that a later tie replaces the earlier window
WindowBeatsOrTies(avg_window, avg) == RGt(avg_window, avg) \/ REq(avg_window, avg)

\* if avg_window > best_avg
WindowBeats(avg_window, avg) == RGt(avg_window, avg)

\* for i in range(len(scores) - duration_hours + 1): ...
\* the pair <<best_start_idx, best_avg>> after the loop
RECURSIVE WindowLoop(_, _, _, _, _)
WindowLoop(s, d, i, idx, avg) ==
    IF i >= Len(s) - d + 1 THEN <<idx, avg>>
    ELSE LET avg_window == Mean(SumSlice(s, i, i + d), d)
         IN  IF WindowBeats(avg_window, avg)
             THEN WindowLoop(s, d, i + 1, i, avg_window)
             ELSE WindowLoop(s, d, i + 1, idx, avg)

BestWindow(s, d) == WindowLoop(s, d, 0, 0, InitialBestAvg)

\* df.iloc[i : j], 0-based and end-clipped
ILoc(df, i, j) == SubSeq(df, i + 1, Min(j, Len(df)))

-----------------------------------------------------------------------------
(* Impact equivalents *)

TreeKgHundredths == 2177     \* 21.77 kg CO2 per tree and year
CarKgThousandths == 192      \* 0.192 kg CO2 per km

MsgSapling == "You helped a sapling take root"
MsgTree == "You planted a tree today"
MsgTwoTrees == "You planted two trees"
MsgGrove == "You grew a small grove"
MsgPatch == "You restored a patch of forest"
MsgForest == "You made a forest flourish"

\* mutation: <= in place of < at the cut points
format_tree_message_inclusive(trees) ==
    IF trees <= 50 THEN MsgSapling
    ELSE IF trees <= 150 THEN MsgTree
    ELSE IF trees <= 300 THEN MsgTwoTrees
    ELSE IF trees <= 500 THEN MsgGrove
    ELSE IF trees <= 1000 THEN MsgPatch
    ELSE MsgForest

\* trees in hundredths
format_tree_message(trees) ==
    IF trees < 50 THEN MsgSapling
    ELSE IF trees < 150 THEN MsgTree
    ELSE IF trees < 300 THEN MsgTwoTrees
    ELSE IF trees < 500 THEN MsgGrove
    ELSE IF trees < 1000 THEN MsgPatch
    ELSE MsgForest

\* mutation: max(0, ...) is missing
Co2SavedKgUnclamped(avg_score, best_score, duration_hours) ==
    LET diff == RSub(best_score, avg_score)
    IN  IF RIsNaN(diff) THEN <<0, 1>>
        ELSE <<diff[1] * duration_hours, diff[2] * 10>>

\* mutation: the factor duration_hours is missing
Co2SavedKgPerHour(avg_score, best_score, duration_hours) ==
    LET diff == RSub(best_score, avg_score)
        x == IF RIsNaN(diff) THEN RNaN ELSE <<diff[1], diff[2] * 10>>
    IN  IF RGt(x, <<0, 1>>) THEN x ELSE <<0, 1>>

\* max(0, (best_score - avg_score) / 10.0) * duration_hours, a rational in kg.
\* Python's max(0, x) keeps 0 unless x > 0, so a NaN gives 0.
Co2SavedKg(avg_score, best_score, duration_hours) ==
    LET diff == RSub(best_score, avg_score)
        x == IF RIsNaN(diff) THEN RNaN ELSE <<diff[1], diff[2] * 10>>
    IN  IF RGt(x, <<0, 1>>) THEN <<x[1] * duration_hours, x[2]>> ELSE <<0, 1>>

\* round(co2_saved_kg / 21.77, 2), in hundredths
TreesPlanted(co2) == RoundHalfEven(co2[1] * 100 * 100, co2[2] * TreeKgHundredths)

calculate_impact(avg_score, best_score, duration_hours) ==
    LET co2_saved_kg == Co2SavedKg(avg_score, best_score, duration_hours)
        trees_planted == TreesPlanted(co2_saved_kg)
    IN  [trees_planted_equiv |-> trees_planted,
         tree_message |-> format_tree_message(trees_planted)]

\* the earlier definition of the file (lines 286-295): kg and trees in
\* hundredths, km in tenths
calculate_impact_v2(avg_score, best_score, duration_hours) ==
    LET co2_saved_kg == Co2SavedKg(avg_score, best_score, duration_hours)
    IN  [co2_saved_kg |-> RoundHalfEven(co2_saved_kg[1] * 100, co2_saved_kg[2]),
         trees_planted_equiv |-> TreesPlanted(co2_saved_kg),
         km_car_avoided_equiv |->
             RoundHalfEven(co2_saved_kg[1] * 10 * 1000,
                           co2_saved_kg[2] * CarKgThousandths)]

-----------------------------------------------------------------------------
(* generate_predictions(location, hours_ahead, day, duration_hours)        *)

NoError == [status_code |-> 0, detail |-> "none"]
HTTPException(status_code, detail) == [status_code |-> status_code, detail |-> detail]
\* any other exception: its class and str(e)
Exception(type, message) == [type |-> type, message |-> message]
IsHTTPException(e) == "status_code" \in DOMAIN e
NoException == [type |-> "none", message |-> "none"]
Unset == <<>>
NoCall == [fn |-> "none"]

(* The upstream services.  A requests.get either raises (no connection, a  *)
(* timeout) or returns a response with a status and a body.  Only a 2xx    *)
(* response is taken to carry the JSON document the caller reads.          *)

MaxResults == 2       \* places in a geocoder answer

UpstreamStatuses == {200, 304, 404, 429, 500, 503}
Places == {[lat |-> 1, lon |-> 1], [lat |-> 2, lon |-> 2]}
ResultLists == UNION {[1 .. n -> Places] : n \in 0 .. MaxResults}

Replies(documents) ==
    {[kind |-> "failure", status |-> 0, json |-> FALSE, document |-> <<>>]}
        \cup [kind : {"response"}, status : UpstreamStatuses, json : {FALSE},
              document : {<<>>}]
        \cup [kind : {"response"}, status : {200}, json : {TRUE},
              document : documents]

\* Response.raise_for_status(): HTTPError for a 4xx or 5xx status
raise_for_status(status) == status >= 400 /\ status < 600
\* str() of that HTTPError begins "<status> Client Error" or "<status> Server Error"
HTTPErrorText(status) ==
    ToString(status) \o (IF status < 500 THEN " Client Error" ELSE " Server Error")

\* requests.get, r.raise_for_status(), r.json(): the document or the exception
Fetch(reply) ==
    IF reply.kind = "failure"
    THEN [ok |-> FALSE, value |-> <<>>,
          exc |-> Exception("ConnectionError", "connection failed")]
    ELSE IF raise_for_status(reply.status)
    THEN [ok |-> FALSE, value |-> <<>>,
          exc |-> Exception("HTTPError", HTTPErrorText(reply.status))]
    ELSE IF ~reply.json
    THEN [ok |-> FALSE, value |-> <<>>,
          exc |-> Exception("JSONDecodeError", "Expecting value")]
    ELSE [ok |-> TRUE, value |-> reply.document, exc |-> NoException]

\* mutation: the handler for HTTPException is missing
GeocodeExceptWrapAll(exc) ==
    HTTPException(500, "Geocoding failed: "
                           \o (IF IsHTTPException(exc) THEN exc.detail ELSE exc.message))

\* except HTTPException: raise / except Exception as e: raise HTTPException(500, ...)
GeocodeExcept(exc) ==
    IF IsHTTPException(exc)
    THEN exc
    ELSE HTTPException(500, "Geocoding failed: " \o exc.message)

geocode_location(reply) ==
    LET r == Fetch(reply)
    IN  IF ~r.ok
        THEN [ok |-> FALSE, value |-> <<>>, exc |-> GeocodeExcept(r.exc)]
        ELSE IF r.value = <<>>
        THEN [ok |-> FALSE, value |-> <<>>,
              exc |-> GeocodeExcept(HTTPException(404, "Location not found"))]
        ELSE [ok |-> TRUE, value |-> r.value[1], exc |-> NoException]

\* mutation: every failure is reported with the same status
WeatherExceptOneStatus(exc) ==
    HTTPException(500, "Weather API fetch failed: " \o exc.message)

\* except requests.exceptions.HTTPError / except Exception
WeatherExcept(exc) ==
    IF exc.type = "HTTPError"
    THEN HTTPException(400, "Weather API error: " \o exc.message)
    ELSE HTTPException(500, "Weather API fetch failed: " \o exc.message)

\* get_weather_forecast(lat, lon, hours_ahead): the whole frame of the answer
get_weather_forecast(hours_ahead, reply) ==
    LET r == Fetch(reply)
    IN  IF ~r.ok
        THEN [ok |-> FALSE, value |-> <<>>, exc |-> WeatherExcept(r.exc)]
        ELSE r

\* hourly rows of a weather answer, consecutive hours from the first
Frame(first, n) == [k \in 1 .. n |-> [datetime |-> first + k - 1]]
Payloads == {Frame(first, n) : first \in FirstHours, n \in 1 .. MaxRows}

\* day: None (or the empty string), a date, or a string pd.to_datetime rejects
DayArgs ==
    {[kind |-> "none", date |-> 0], [kind |-> "invalid", date |-> 0]}
        \cup [kind : {"date"}, date : 0 .. MaxDay]

Requests == [day : DayArgs, duration_hours : 1 .. MaxDuration]

Init ==
    /\ pc = "start"
    /\ req \in Requests
    /\ forecast_req = 0
    /\ df_proc = Unset
    /\ scores = Unset
    /\ best_start_idx = 0
    /\ best_avg = RNaN
    /\ best_block = Unset
    /\ impact = Unset
    /\ response = Unset
    /\ error = NoError
    /\ raised = NoException
    /\ weather_df = Unset
    /\ calls = <<>>
    /\ call = NoCall
    /\ bundle = Unset
    /\ procs = Unset

\* mutation: the handler for HTTPException is missing
ServiceExceptWrapAll(exc) ==
    HTTPException(500, IF IsHTTPException(exc) THEN exc.detail ELSE exc.message)

\* except HTTPException: raise / except Exception as e: HTTPException(500, str(e))
ServiceExcept(exc) ==
    IF IsHTTPException(exc) THEN exc ELSE HTTPException(500, exc.message)

\* mutation: the request starts again after a failure
RaiseAndRetry(exc) ==
    /\ pc' = "start"
    /\ raised' = exc
    /\ error' = ServiceExcept(exc)

\* an exception inside the try block of generate_predictions ends the request
Raise(exc) ==
    /\ pc' = "error"
    /\ raised' = exc
    /\ error' = ServiceExcept(exc)

\* the route get_predictions: except HTTPException: raise / except Exception
RouteExcept(exc) ==
    IF IsHTTPException(exc)
    THEN exc
    ELSE HTTPException(500, "Failed to generate predictions: " \o exc.message)

\* lat, lon = geocode_location(location)
GeocodeLocation ==
    /\ pc = "start"
    /\ calls' = Append(calls, "geocoder")
    /\ \E reply \in Replies(ResultLists) :
           LET r == geocode_location(reply)
           IN  IF r.ok
               THEN pc' = "geocoded" /\ UNCHANGED <<error, raised>>
               ELSE Raise(r.exc)
    /\ UNCHANGED <<req, forecast_req, df_proc, scores, best_start_idx, best_avg,
                   best_block, impact, response, weather_df, call, cvars>>

\* weather_df = get_weather_forecast(lat, lon, hours_ahead=168)
GetWeatherForecast ==
    /\ pc = "geocoded"
    /\ calls' = Append(calls, "weather")
    /\ forecast_req' = forecast_days(FullHorizon)
    /\ \E reply \in Replies(Payloads) :
           LET r == get_weather_forecast(FullHorizon, reply)
           IN  IF r.ok
               THEN /\ weather_df' = r.value
                    /\ pc' = "fetched"
                    /\ UNCHANGED <<error, raised>>
               ELSE /\ Raise(r.exc)
                    /\ UNCHANGED weather_df
    /\ UNCHANGED <<req, df_proc, scores, best_start_idx, best_avg, best_block,
                   impact, response, call, cvars>>

\* df_proc = preprocess_input(weather_df): the same frame object, which then
\* gets the predicted_score and cleanliness_score columns
Score ==
    /\ pc = "fetched"
    /\ \/ \E raws \in [1 .. Len(weather_df) -> RawScores] :
              LET cleanliness == Normalize(raws)
              IN  /\ df_proc' = [k \in 1 .. Len(weather_df) |->
                                   [datetime |-> weather_df[k].datetime,
                                    predicted_score |-> raws[k],
                                    cleanliness_score |-> cleanliness[k]]]
                  /\ weather_df' = df_proc'
                  /\ pc' = "scored"
                  /\ UNCHANGED <<error, raised>>
       \/ /\ Raise(Exception("KeyError", "feature mismatch"))
          /\ UNCHANGED <<df_proc, weather_df>>
    /\ UNCHANGED <<req, forecast_req, scores, best_start_idx, best_avg,
                   best_block, impact, response, calls, call, cvars>>

\* mutation: the date is taken in a zone one hour east of UTC
OnDateShifted(df, target_date) ==
    LET Match(row) == DateOf(row.datetime + 1) = target_date
    IN  SelectSeq(df, Match)

OnDate(df, target_date) ==
    LET Match(row) == DateOf(row.datetime) = target_date
    IN  SelectSeq(df, Match)

\* if day: ... df_proc = df_proc[df_proc["datetime"].dt.date == target_date]
FilterDay ==
    /\ pc = "scored"
    /\ \/ /\ req.day.kind = "none"
          /\ pc' = "filtered"
          /\ UNCHANGED <<df_proc, error, raised>>
       \/ /\ req.day.kind = "invalid"
          /\ Raise(Exception("ValueError", "day does not parse"))
          /\ UNCHANGED df_proc
       \/ /\ req.day.kind = "date"
          /\ df_proc' = OnDate(df_proc, req.day.date)
          /\ IF df_proc' = <<>>
             THEN Raise(HTTPException(404, "No forecast data for day"))
             ELSE pc' = "filtered" /\ UNCHANGED <<error, raised>>
    /\ UNCHANGED <<req, forecast_req, scores, best_start_idx, best_avg,
                   best_block, impact, response, weather_df, calls, call, cvars>>

\* scores = ...tolist(); the loop; best_block = df_proc.iloc[...]
SelectWindow ==
    /\ pc = "filtered"
    /\ scores' = [k \in 1 .. Len(df_proc) |-> df_proc[k].cleanliness_score]
    /\ LET best == BestWindow(scores', req.duration_hours)
       IN  /\ best_start_idx' = best[1]
           /\ best_avg' = best[2]
           /\ best_block' = ILoc(df_proc, best[1], best[1] + req.duration_hours)
    /\ pc' = "selected"
    /\ UNCHANGED <<req, forecast_req, df_proc, impact, response, error, raised,
                   weather_df, calls, call, cvars>>

\* impact = calculate_impact(avg_score=sum(scores)/len(scores), ...)
EstimateImpact ==
    /\ pc = "selected"
    /\ impact' = calculate_impact(Mean(SumSlice(scores, 0, Len(scores)), Len(scores)),
                                  best_avg, req.duration_hours)
    /\ pc' = "estimated"
    /\ UNCHANGED <<req, forecast_req, df_proc, scores, best_start_idx, best_avg,
                   best_block, response, error, raised, weather_df, calls, call, cvars>>

\* mutation: the point carries the raw model score
PredictionPointRaw(row) ==
    [timestamp |-> row.datetime,
     cleanliness_score |-> row.predicted_score,
     confidence |-> "null",
     carbon_intensity |-> "null"]

PredictionPoint(row) ==
    [timestamp |-> row.datetime,
     cleanliness_score |-> row.cleanliness_score,
     confidence |-> "null",
     carbon_intensity |-> "null"]

\* Field(..., ge=0, le=100)
ScoreInRange(x) == ~IsNaN(x) /\ x >= 0 /\ x <= 1000

\* round(best_avg, 1), in tenths
Round1(a) == RoundHalfEven(a[1] * 10, a[2])

\* prediction_points = [...]; return {...}.  A NaN score fails the ge/le
\* comparisons of PredictionPoint in pydantic releases that compare with
\* "not v >= ge" and passes them in releases that compare with "v < ge".
Respond ==
    /\ pc = "estimated"
    /\ \/ /\ \A k \in 1 .. Len(df_proc) :
                 \/ ScoreInRange(df_proc[k].cleanliness_score)
                 \/ IsNaN(df_proc[k].cleanliness_score)
          /\ response' =
                 [predictions |-> [k \in 1 .. Len(df_proc) |-> PredictionPoint(df_proc[k])],
                  recommended_window |->
                      [start |-> best_block[1].datetime,
                       end |-> best_block[Len(best_block)].datetime,
                       average_cleanliness_score |-> Round1(best_avg),
                       impact |-> impact],
                  model_version |-> "weather_time_v1",
                  data_freshness |-> "live"]
          /\ pc' = "done"
          /\ UNCHANGED <<error, raised>>
       \/ /\ \E k \in 1 .. Len(df_proc) : ~ScoreInRange(df_proc[k].cleanliness_score)
          /\ Raise(Exception("ValidationError", "validation error"))
          /\ UNCHANGED response
    /\ UNCHANGED <<req, forecast_req, df_proc, scores, best_start_idx, best_avg,
                   best_block, impact, weather_df, calls, call, cvars>>

Next ==
    \/ GeocodeLocation
    \/ GetWeatherForecast
    \/ Score
    \/ FilterDay
    \/ SelectWindow
    \/ EstimateImpact
    \/ Respond

Spec == Init /\ [][Next]_vars

-----------------------------------------------------------------------------
(* The helper functions applied to enumerated inputs.  call records the    *)
(* function, its arguments and what it returned.                           *)

MaxScoreSteps == 8        \* score arguments are 0, ScoreStep, ..., in tenths
ScoreStep == 125
MaxCallDuration == 6      \* duration_hours argument of calculate_impact
MaxTrees == 1050          \* trees argument of format_tree_message, hundredths
MaxHoursAhead == 200      \* hours_ahead argument of get_weather_forecast

\* float arguments: scores on a grid, the loop's initial -1, and NaN
ScoreArgs ==
    {<<k * ScoreStep, 10>> : k \in 0 .. MaxScoreSteps} \cup {InitialBestAvg, RNaN}
TreeArgs == (0 - 20) .. MaxTrees

FnInit ==
    /\ pc = "idle"
    /\ req = [day |-> [kind |-> "none", date |-> 0], duration_hours |-> 1]
    /\ forecast_req = 0
    /\ df_proc = Unset
    /\ scores = Unset
    /\ best_start_idx = 0
    /\ best_avg = RNaN
    /\ best_block = Unset
    /\ impact = Unset
    /\ response = Unset
    /\ error = NoError
    /\ raised = NoException
    /\ weather_df = Unset
    /\ calls = <<>>
    /\ call = NoCall
    /\ bundle = Unset
    /\ procs = Unset

CallCalculateImpact ==
    /\ call.fn = "none"
    /\ \E a \in ScoreArgs, b \in ScoreArgs, d \in 1 .. MaxCallDuration :
           call' = [fn |-> "calculate_impact",
                    avg_score |-> a, best_score |-> b, duration_hours |-> d,
                    out |-> calculate_impact(a, b, d)]
    /\ UNCHANGED pvars

CallCalculateImpactV2 ==
    /\ call.fn = "none"
    /\ \E a \in ScoreArgs, b \in ScoreArgs, d \in 1 .. MaxCallDuration :
           call' = [fn |-> "calculate_impact_v2",
                    avg_score |-> a, best_score |-> b, duration_hours |-> d,
                    out |-> calculate_impact_v2(a, b, d)]
    /\ UNCHANGED pvars

CallFormatTreeMessage ==
    /\ call.fn \in {"none", "format_tree_message"}
    /\ \E t \in TreeArgs :
           call' = [fn |-> "format_tree_message", trees |-> t,
                    out |-> format_tree_message(t)]
    /\ UNCHANGED pvars

\* the weather service answers a request for days forecast days with
\* HoursPerDay hourly rows per day
FullPayload(days) == Frame(0, HoursPerDay * days)

\* get_weather_forecast(lat, lon, hours_ahead): the request parameters, then
\* the upstream's answer decides between the frame and an HTTPException
CallGetWeatherForecast ==
    /\ call.fn = "none"
    /\ \E h \in 1 .. MaxHoursAhead :
           \E reply \in Replies({FullPayload(forecast_days(h))}) :
               LET r == get_weather_forecast(h, reply)
               IN  call' = [fn |-> "get_weather_forecast", hours_ahead |-> h,
                            forecast_days |-> forecast_days(h),
                            reply |-> reply,
                            out |-> r.value,
                            error |-> IF r.ok THEN NoError ELSE r.exc]
    /\ UNCHANGED pvars

\* geocode_location(location) against one answer of the geocoder
CallGeocodeLocation ==
    /\ call.fn = "none"
    /\ \E reply \in Replies(ResultLists) :
           LET r == geocode_location(reply)
           IN  call' = [fn |-> "geocode_location", reply |-> reply,
                        out |-> r.value,
                        error |-> IF r.ok THEN NoError ELSE r.exc]
    /\ UNCHANGED pvars

\* lines 508-509 and 541-549 of generate_predictions for a request with no
\* day: the frame fetched for the request and one prediction per row of it
CallFetchForRequest ==
    /\ call.fn = "none"
    /\ \E h \in 1 .. MaxHoursAhead :
           LET days == forecast_days(FullHorizon)
               r == get_weather_forecast(FullHorizon,
                        [kind |-> "response", status |-> 200, json |-> TRUE,
                         document |-> FullPayload(days)])
           IN  call' = [fn |-> "generate_predictions", hours_ahead |-> h,
                        forecast_days |-> days,
                        rows_fetched |-> Len(r.value),
                        predictions |-> Len(r.value)]
    /\ UNCHANGED pvars

(* The route GET /api/v1/predictions of api/routes/predictions.py and the  *)
(* object it imports from app.services.prediction.                         *)

MockHours == 24       \* hours of _generate_mock_predictions and of the body

\* the query: the parameters the client gave, and their values when given
Queries ==
    [given : SUBSET {"location", "hours_ahead"},
     location : {"Berlin"},
     hours_ahead : {0, HoursPerDay, FullHorizon + 1}]

\* the summed base score and noise of an hour before the clamp, in tenths
MockLevels == {0 - 300, 555, 990}

\* PredictionService.generate_predictions(self, location) called with the
\* keyword arguments kwargs: the binding, then the mock predictions
PredictionService_generate_predictions(kwargs, location, level) ==
    IF kwargs \subseteq {"location"}
    THEN [ok |-> TRUE,
          value |->
              [location |-> location,
               predictions |->
                   [k \in 1 .. MockHours |->
                       [timestamp |-> k - 1,
                        cleanliness_score |-> Max(0, Min(1000, level + k))]],
               model_version |-> "1.0.0",
               data_freshness |-> "< 15 minutes"],
          exc |-> NoException]
    ELSE [ok |-> FALSE, value |-> <<>>,
          exc |-> Exception("TypeError", "unexpected keyword argument")]

\* get_predictions: the validation of the query parameters by their Query
\* declarations, the call of the service, the except clauses
get_predictions(q, level) ==
    LET hours_ahead == IF "hours_ahead" \in q.given THEN q.hours_ahead ELSE 24
    IN  IF "location" \notin q.given
        THEN [status |-> 422, body |-> [detail |-> "location: field required"]]
        ELSE IF hours_ahead < 1 \/ hours_ahead > 168
        THEN [status |-> 422, body |-> [detail |-> "hours_ahead: out of range"]]
        ELSE LET r == PredictionService_generate_predictions(
                          {"location", "hours_ahead", "day", "duration_hours"},
                          q.location, level)
             IN  IF r.ok
                 THEN [status |-> 200, body |-> r.value]
                 ELSE [status |-> RouteExcept(r.exc).status_code,
                       body |-> [detail |-> RouteExcept(r.exc).detail]]

CallGetPredictions ==
    /\ call.fn = "none"
    /\ \E q \in Queries, level \in MockLevels :
           LET r == get_predictions(q, level)
           IN  call' = [fn |-> "get_predictions", query |-> q,
                        status |-> r.status, body |-> r.body]
    /\ UNCHANGED pvars

(* services/ingestion/data_validator.py.  A record is a dict; obj is the   *)
(* identity of the dict object (its position in the input list).  A field  *)
(* that is absent or None is "none" (None for a number).  Timestamps are   *)
(* "datetime" (a datetime object), "iso" (a string fromisoformat reads),   *)
(* "unpadded" (a string only strptime '%Y-%m-%d %H:%M:%S' reads, such as   *)
(* '2024-1-5 8:00:00') or "text" (a string neither reads).  Of the         *)
(* optional fields, those modelled are named in the records below.         *)

MaxRecords == 3       \* records in an input list

None == 0 - 9999

EnvBase ==
    [timestamp |-> "iso", location |-> "Berlin", temperature |-> 20, humidity |-> 50]
EnvRecords ==
    {EnvBase}
        \cup {[EnvBase EXCEPT !.timestamp = t] :
                 t \in {"none", "datetime", "unpadded", "text"}}
        \cup {[EnvBase EXCEPT !.location = l] : l \in {"none", ""}}
        \cup {[EnvBase EXCEPT !.temperature = t] :
                 t \in {None, 0 - 51, 0 - 50, 60, 61}}
        \cup {[EnvBase EXCEPT !.humidity = h] : h \in {None, 101}}

GridBase ==
    [timestamp |-> "iso", location |-> "Ontario", region |-> "none",
     carbon_intensity |-> 45, total_demand |-> 100]
GridRecords ==
    {GridBase}
        \cup {[GridBase EXCEPT !.timestamp = t] :
                 t \in {"none", "datetime", "unpadded", "text"}}
        \cup {[GridBase EXCEPT !.location = l, !.region = r] :
                 l \in {"none", ""}, r \in {"none", "Quebec"}}
        \cup {[GridBase EXCEPT !.carbon_intensity = c] :
                 c \in {None, 0 - 1, 0, 1000, 1001}}
        \cup {[GridBase EXCEPT !.total_demand = d] : d \in {None, 0 - 1}}

\* the lists of at most MaxRecords records drawn from kinds, each a new object
RecordLists(kinds) ==
    UNION {{[k \in 1 .. n |-> [obj |-> k, fields |-> f[k]]] : f \in [1 .. n -> kinds]} :
              n \in 0 .. MaxRecords}

\* ValidationResult
NewValidationResult == [valid_records |-> <<>>, invalid_records |-> <<>>, errors |-> <<>>]
is_valid(result) == Len(result.invalid_records) = 0
total_records(result) == Len(result.valid_records) + Len(result.invalid_records)

\* mutation: a valid record also leaves an error message
add_valid_record_with_error(result, record) ==
    [result EXCEPT !.valid_records = Append(@, record),
                   !.errors = Append(@, "")]

add_valid_record(result, record) ==
    [result EXCEPT !.valid_records = Append(@, record)]

\* mutation: the error message is not recorded
add_invalid_record_no_error(result, record, error_msg) ==
    [result EXCEPT !.invalid_records = Append(@, record)]

add_invalid_record(result, record, error_msg) ==
    [result EXCEPT !.invalid_records = Append(@, record),
                   !.errors = Append(@, error_msg)]

_is_valid_timestamp(timestamp) == timestamp \in {"datetime", "iso", "unpadded"}
\* datetime.fromisoformat(timestamp.replace('Z', '+00:00')) raises ValueError
FromIsoFormatRaises(timestamp) == timestamp \notin {"iso"}

\* the messages of a sequence of (condition, message) pairs whose condition holds
Messages_of(checks) ==
    LET Holds(c) == c[1]
        hit == SelectSeq(checks, Holds)
    IN  [k \in 1 .. Len(hit) |-> hit[k][2]]

TEMPERATURE_RANGE == <<0 - 50, 60>>
\* mutation: the upper bound of the carbon intensity range is exclusive
CARBON_INTENSITY_RANGE_exclusive == <<0, 999>>

CARBON_INTENSITY_RANGE == <<0, 1000>>

\* f"Record {i}: ..." with the reasons joined into it
ErrorMessage(i, text, reasons) == [index |-> i, text |-> text, reasons |-> reasons]

_validate_environmental_record(f) ==
    Messages_of(<<
        <<f.timestamp = "none", "Missing required field: timestamp">>,
        <<f.location = "none", "Missing required field: location">>,
        <<f.timestamp # "none" /\ ~_is_valid_timestamp(f.timestamp),
          "Invalid timestamp format">>,
        <<f.location = "", "Location must be a non-empty string">>,
        <<f.temperature # None
              /\ ~(TEMPERATURE_RANGE[1] <= f.temperature
                      /\ f.temperature <= TEMPERATURE_RANGE[2]),
          "Temperature must be between -50 and 60 C">> >>)

\* EnvironmentalData(**record) raises no ValidationError
EnvironmentalDataAccepts(f) ==
    /\ f.timestamp \in {"datetime", "iso"}
    /\ f.location # "none"
    /\ f.temperature = None \/ (f.temperature >= 0 - 50 /\ f.temperature <= 60)
    /\ f.humidity = None \/ (f.humidity >= 0 /\ f.humidity <= 100)

\* the loop of validate_environmental_data from the i-th record on (1-based)
RECURSIVE EnvLoop(_, _, _)
EnvLoop(records, i, result) ==
    IF i > Len(records) THEN result
    ELSE LET record == records[i]
             validation_errors == _validate_environmental_record(record.fields)
             is_str == record.fields.timestamp # "datetime"
             parsed == IF is_str
                       THEN [record EXCEPT !.fields.timestamp = "datetime"]
                       ELSE record
             after ==
                 IF validation_errors # <<>>
                 THEN add_invalid_record(result, record,
                          ErrorMessage(i - 1, "", validation_errors))
                 ELSE IF is_str /\ FromIsoFormatRaises(record.fields.timestamp)
                 THEN add_invalid_record(result, record,
                          ErrorMessage(i - 1, "Unexpected validation error", <<>>))
                 ELSE IF ~EnvironmentalDataAccepts(parsed.fields)
                 THEN add_invalid_record(result, parsed,
                          ErrorMessage(i - 1, "Pydantic validation failed", <<>>))
                 ELSE add_valid_record(result, parsed)
         IN  EnvLoop(records, i + 1, after)

validate_environmental_data(records) == EnvLoop(records, 1, NewValidationResult)

_validate_grid_record(f) ==
    LET location_field == IF f.location # "none" THEN "location" ELSE "region"
        location_value == IF f.location \notin {"none", ""} THEN f.location ELSE f.region
    IN  Messages_of(<<
            <<f.timestamp = "none", "Missing required field: timestamp">>,
            <<f[location_field] = "none", "Missing required field: region">>,
            <<f.timestamp # "none" /\ ~_is_valid_timestamp(f.timestamp),
              "Invalid timestamp format">>,
            <<location_value = "", "Location/region must be a non-empty string">>,
            <<f.carbon_intensity # None
                  /\ ~(CARBON_INTENSITY_RANGE[1] <= f.carbon_intensity
                          /\ f.carbon_intensity <= CARBON_INTENSITY_RANGE[2]),
              "Carbon intensity must be between 0 and 1000 gCO2/kWh">> >>)

\* GridData(**record) raises no ValidationError
GridDataAccepts(f) ==
    /\ f.timestamp \in {"datetime", "iso"}
    /\ f.region # "none"
    /\ f.carbon_intensity = None \/ f.carbon_intensity >= 0
    /\ f.total_demand = None \/ f.total_demand >= 0

\* the loop of validate_grid_data from the i-th record on (1-based)
RECURSIVE GridLoop(_, _, _)
GridLoop(records, i, result) ==
    IF i > Len(records) THEN result
    ELSE LET record == records[i]
             validation_errors == _validate_grid_record(record.fields)
             is_str == record.fields.timestamp # "datetime"
             parsed == IF is_str
                       THEN [record EXCEPT !.fields.timestamp = "datetime"]
                       ELSE record
             renamed ==
                 IF parsed.fields.location # "none" /\ parsed.fields.region = "none"
                 THEN [parsed EXCEPT !.fields.region = parsed.fields.location,
                                     !.fields.location = "none"]
                 ELSE parsed
             after ==
                 IF validation_errors # <<>>
                 THEN add_invalid_record(result, record,
                          ErrorMessage(i - 1, "", validation_errors))
                 ELSE IF is_str /\ FromIsoFormatRaises(record.fields.timestamp)
                 THEN add_invalid_record(result, record,
                          ErrorMessage(i - 1, "Unexpected validation error", <<>>))
                 ELSE IF ~GridDataAccepts(renamed.fields)
                 THEN add_invalid_record(result, renamed,
                          ErrorMessage(i - 1, "Pydantic validation failed", <<>>))
                 ELSE add_valid_record(result, renamed)
         IN  GridLoop(records, i + 1, after)

validate_grid_data(records) == GridLoop(records, 1, NewValidationResult)

CallValidateEnvironmentalData ==
    /\ call.fn = "none"
    /\ \E records \in RecordLists(EnvRecords) :
           call' = [fn |-> "validate_environmental_data", records |-> records,
                    out |-> validate_environmental_data(records)]
    /\ UNCHANGED pvars

CallValidateGridData ==
    /\ call.fn = "none"
    /\ \E records \in RecordLists(GridRecords) :
           call' = [fn |-> "validate_grid_data", records |-> records,
                    out |-> validate_grid_data(records)]
    /\ UNCHANGED pvars

(* A ValidationResult driven by its two add methods.  call keeps the       *)
(* object and how many records of each kind were added to it.              *)

MaxAdds == 3          \* add_* calls on one ValidationResult

AddedRecords == {"a", "b"}

\* result = ValidationResult()
CallNewValidationResult ==
    /\ call.fn = "none"
    /\ call' = [fn |-> "ValidationResult", result |-> NewValidationResult,
                valid_added |-> 0, invalid_added |-> 0]
    /\ UNCHANGED pvars

\* result.add_valid_record(record)
CallAddValidRecord ==
    /\ call.fn = "ValidationResult"
    /\ call.valid_added + call.invalid_added < MaxAdds
    /\ \E record \in AddedRecords :
           call' = [call EXCEPT !.result = add_valid_record(@, record),
                                !.valid_added = @ + 1]
    /\ UNCHANGED pvars

\* result.add_invalid_record(record, error)
CallAddInvalidRecord ==
    /\ call.fn = "ValidationResult"
    /\ call.valid_added + call.invalid_added < MaxAdds
    /\ \E record \in AddedRecords, error_msg \in {"Test error"} :
           call' = [call EXCEPT !.result = add_invalid_record(@, record, error_msg),
                                !.invalid_added = @ + 1]
    /\ UNCHANGED pvars

(* DataStore: storing validated records through a database session.  The  *)
(* session is seen through the calls made on it, in order, and through     *)
(* what each of them does: "ok", or the name of the error it raises.       *)

MaxStored == 2        \* records in one store call

StoredRecords ==
    {[timestamp |-> "datetime", location |-> "Toronto", temperature |-> 20],
     [timestamp |-> "datetime", region |-> "Ontario", carbon_intensity |-> 45]}

StoredLists == UNION {[1 .. n -> StoredRecords] : n \in 0 .. MaxStored}

\* what execute, commit and rollback of the session do when awaited
Sessions ==
    [execute : {"ok", "SQLAlchemyError"},
     commit : {"ok", "SQLAlchemyError"},
     rollback : {"ok", "SQLAlchemyError"}]

\* record['timestamp'], record[<place>]: the first key a record lacks
MissingKey(required, records) ==
    LET lacks == {<<i, k>> \in (1 .. Len(records)) \X (1 .. Len(required)) :
                     required[k] \notin DOMAIN records[i]}
        first == CHOOSE p \in lacks :
                     \A q \in lacks : p[1] < q[1] \/ (p[1] = q[1] /\ p[2] <= q[2])
    IN  IF lacks = {} THEN "none" ELSE required[first[2]]

\* mutation: the statement is executed and never committed
BulkInsertNoCommit(db) ==
    IF db.execute # "ok"
    THEN [calls |-> <<"execute">>, exc |-> Exception(db.execute, "execute")]
    ELSE [calls |-> <<"execute">>, exc |-> NoException]

\* await session.execute(stmt); await session.commit()
BulkInsert(db) ==
    IF db.execute # "ok"
    THEN [calls |-> <<"execute">>, exc |-> Exception(db.execute, "execute")]
    ELSE IF db.commit # "ok"
    THEN [calls |-> <<"execute", "commit">>, exc |-> Exception(db.commit, "commit")]
    ELSE [calls |-> <<"execute", "commit">>, exc |-> NoException]

\* mutation: the error is re-raised with the session left as it is
StoreExceptNoRollback(tried, db) ==
    [calls |-> tried.calls, out |-> Unset, raised |-> tried.exc]

\* except SQLAlchemyError / except Exception: rollback, then raise
StoreExcept(tried, db) ==
    [calls |-> tried.calls \o <<"rollback">>,
     out |-> Unset,
     raised |-> IF db.rollback # "ok"
                THEN Exception(db.rollback, "rollback")
                ELSE tried.exc]

\* the body shared by the two store methods
StoreRecords(required, records, db) ==
    IF records = <<>>
    THEN [calls |-> <<>>, out |-> 0, raised |-> NoException]
    ELSE LET key == MissingKey(required, records)
             tried == IF key # "none"
                      THEN [calls |-> <<>>, exc |-> Exception("KeyError", key)]
                      ELSE BulkInsert(db)
         IN  IF tried.exc # NoException
             THEN StoreExcept(tried, db)
             ELSE [calls |-> tried.calls, out |-> Len(records), raised |-> NoException]

store_environmental_data(records, db) ==
    StoreRecords(<<"timestamp", "location">>, records, db)

store_grid_data(records, db) ==
    StoreRecords(<<"timestamp", "region">>, records, db)

CallStoreEnvironmentalData ==
    /\ call.fn = "none"
    /\ \E records \in StoredLists, db \in Sessions :
           call' = [fn |-> "store_environmental_data", records |-> records, db |-> db,
                    done |-> store_environmental_data(records, db)]
    /\ UNCHANGED pvars

CallStoreGridData ==
    /\ call.fn = "none"
    /\ \E records \in StoredLists, db \in Sessions :
           call' = [fn |-> "store_grid_data", records |-> records, db |-> db,
                    done |-> store_grid_data(records, db)]
    /\ UNCHANGED pvars

(* DataFetcher: one fetcher object, its async context and its fetches.     *)
(* call keeps the object (its session, the mock files under its            *)
(* mock_data_path), the requests its sessions sent, the number of file     *)
(* reads, and what the last fetch did.                                     *)

MaxContexts == 2      \* times the async context of one fetcher is entered
MaxFetches == 2       \* fetches on one fetcher

DataKinds == {"environmental", "grid"}
Sources == {"mock", "api", "http://host/data", "https://host/data", "Mock", "file", ""}
MockFiles == [DataKinds -> {"missing", "records", "malformed"}]
\* json.load of a mock file that holds records
MockData(kind) == <<kind \o " record 1", kind \o " record 2">>

\* what a request sent by an open session comes to
HttpReplies ==
    {[kind |-> "response", status |-> 200, json |-> <<"api record">>],
     [kind |-> "response", status |-> 404, json |-> <<>>],
     [kind |-> "response", status |-> 500, json |-> <<>>],
     [kind |-> "ClientConnectionError"]}

\* source.startswith("http")
StartsWithHttp(source) == source \in {"http://host/data", "https://host/data"}

NoFetch == [fn |-> "none"]
Fetched(data, exc, read, requested) ==
    [out |-> data, raised |-> exc, read |-> read, requested |-> requested]

_fetch_mock_data(self, kind) ==
    IF self.files[kind] = "missing"
    THEN Fetched(Unset, Exception("FileNotFoundError", kind), FALSE, FALSE)
    ELSE IF self.files[kind] = "malformed"
    THEN Fetched(Unset, Exception("JSONDecodeError", kind), TRUE, FALSE)
    ELSE Fetched(MockData(kind), NoException, TRUE, FALSE)

\* mutation: the session is not looked at before the request is made
_fetch_api_data_unchecked(self, url, reply) ==
    IF reply.kind # "response"
    THEN Fetched(Unset, Exception(reply.kind, url), FALSE, TRUE)
    ELSE IF reply.status >= 400
    THEN Fetched(Unset, Exception("ClientResponseError", ToString(reply.status)),
                 FALSE, TRUE)
    ELSE Fetched(reply.json, NoException, FALSE, TRUE)

\* self.session.get(url) on a closed ClientSession raises RuntimeError
\* before anything is sent
_fetch_api_data(self, url, reply) ==
    IF self.session = "None"
    THEN Fetched(Unset,
                 Exception("RuntimeError",
                     "DataFetcher must be used as async context manager for API calls"),
                 FALSE, FALSE)
    ELSE IF self.session = "closed"
    THEN Fetched(Unset, Exception("RuntimeError", "Session is closed"), FALSE, FALSE)
    ELSE IF reply.kind # "response"
    THEN Fetched(Unset, Exception(reply.kind, url), FALSE, TRUE)
    ELSE IF reply.status >= 400
    THEN Fetched(Unset, Exception("ClientResponseError", ToString(reply.status)),
                 FALSE, TRUE)
    ELSE Fetched(reply.json, NoException, FALSE, TRUE)

\* mutation: a source that is not known is read from the mock file
fetch_data_mock_by_default(self, kind, source, reply) ==
    IF source = "api" \/ StartsWithHttp(source)
    THEN _fetch_api_data(self, source, reply)
    ELSE _fetch_mock_data(self, kind)

\* the dispatch shared by fetch_environmental_data and fetch_grid_data
fetch_data(self, kind, source, reply) ==
    IF source = "mock"
    THEN _fetch_mock_data(self, kind)
    ELSE IF source = "api" \/ StartsWithHttp(source)
    THEN _fetch_api_data(self, source, reply)
    ELSE Fetched(Unset,
                 Exception("ValueError", "Unsupported data source: " \o source),
                 FALSE, FALSE)

\* fetcher = DataFetcher(mock_data_path)
CallNewDataFetcher ==
    /\ call.fn = "none"
    /\ \E files \in MockFiles :
           call' = [fn |-> "DataFetcher",
                    self |-> [session |-> "None", files |-> files],
                    inside |-> FALSE, entered |-> 0, fetches |-> 0,
                    requests |-> 0, reads |-> 0, last |-> NoFetch]
    /\ UNCHANGED pvars

\* async with fetcher: entry
CallAEnter ==
    /\ call.fn = "DataFetcher"
    /\ ~call.inside
    /\ call.entered < MaxContexts
    /\ call' = [call EXCEPT !.self.session = "open", !.inside = TRUE,
                            !.entered = @ + 1, !.last = NoFetch]
    /\ UNCHANGED pvars

\* async with fetcher: exit
CallAExit ==
    /\ call.fn = "DataFetcher"
    /\ call.inside
    /\ call' = [call EXCEPT !.self.session = IF @ = "None" THEN @ ELSE "closed",
                            !.inside = FALSE, !.last = NoFetch]
    /\ UNCHANGED pvars

\* await fetcher.fetch_environmental_data(source) / fetch_grid_data(source)
CallFetch ==
    /\ call.fn = "DataFetcher"
    /\ call.fetches < MaxFetches
    /\ \E kind \in DataKinds, source \in Sources, reply \in HttpReplies :
           LET done == fetch_data(call.self, kind, source, reply)
           IN  call' = [call EXCEPT
                   !.fetches = @ + 1,
                   !.requests = @ + (IF done.requested THEN 1 ELSE 0),
                   !.reads = @ + (IF done.read THEN 1 ELSE 0),
                   !.last = [fn |-> "fetch_" \o kind \o "_data", kind |-> kind,
                             source |-> source, session |-> call.self.session,
                             inside |-> call.inside, done |-> done]]
    /\ UNCHANGED pvars

(* DataIngestionService: the fetch of one location with its retry loop.    *)
(* In the source the attempt builds mock data in place of the API call it  *)
(* announces; api gives, for each attempt, what that call does: "ok", or   *)
(* "RequestError" for the httpx.RequestError the loop is written to retry. *)

retry_attempts == 3
retry_delay == 1

IngestLocations == {"Toronto", "over 100 characters"}
ApiOutcomes == [1 .. retry_attempts -> {"ok", "RequestError"}]

\* the None a fetch returns in place of data
NoData == [model |-> "None", location |-> "None"]

\* EnvironmentalDataCreate(**mock_data) / GridDataCreate(**mock_data)
Attempt(model, location, outcome) ==
    IF outcome # "ok"
    THEN [data |-> NoData, exc |-> Exception(outcome, location)]
    ELSE IF location = "over 100 characters"
    THEN [data |-> NoData, exc |-> Exception("ValidationError", location)]
    ELSE [data |-> [model |-> model, location |-> location], exc |-> NoException]

\* mutation: the same wait before every retry
BackoffConstant(attempt) == retry_delay

\* self.retry_delay * (2 ** attempt)
Backoff(attempt) == retry_delay * (2 ^ attempt)

\* the for loop of a fetch from the given attempt (0-based) on, inside the
\* outer try: the events so far, then what is returned
RECURSIVE RetryLoop(_, _, _, _, _)
RetryLoop(model, location, api, attempt, events) ==
    IF attempt >= retry_attempts
    THEN [events |-> events, out |-> NoData]
    ELSE LET tried == Attempt(model, location, api[attempt + 1])
             now == Append(events, [op |-> "attempt", arg |-> attempt + 1])
         IN  IF tried.exc = NoException
             THEN [events |-> now, out |-> tried.data]
             ELSE IF tried.exc.type # "RequestError"
             THEN [events |-> now, out |-> NoData]
             ELSE IF attempt < retry_attempts - 1
             THEN RetryLoop(model, location, api, attempt + 1,
                            Append(now, [op |-> "sleep", arg |-> Backoff(attempt)]))
             ELSE [events |-> now, out |-> NoData]

ingestion_fetch_environmental_data(location, api) ==
    RetryLoop("EnvironmentalDataCreate", location, api, 0, <<>>)

ingestion_fetch_grid_data(region, api) ==
    RetryLoop("GridDataCreate", region, api, 0, <<>>)

CallIngestionFetchEnvironmentalData ==
    /\ call.fn = "none"
    /\ \E location \in IngestLocations, api \in ApiOutcomes :
           call' = [fn |-> "DataIngestionService.fetch_environmental_data",
                    model |-> "EnvironmentalDataCreate",
                    location |-> location, api |-> api,
                    done |-> ingestion_fetch_environmental_data(location, api)]
    /\ UNCHANGED pvars

CallIngestionFetchGridData ==
    /\ call.fn = "none"
    /\ \E region \in IngestLocations, api \in ApiOutcomes :
           call' = [fn |-> "DataIngestionService.fetch_grid_data",
                    model |-> "GridDataCreate",
                    location |-> region, api |-> api,
                    done |-> ingestion_fetch_grid_data(region, api)]
    /\ UNCHANGED pvars

(* MigrationManager: the migrations table, the schema, and the runs of     *)
(* migrate_up, migrate_down and reset_database against one database.       *)
(* The database is SQLite unless DATABASE_URL names PostgreSQL, where a    *)
(* failed statement leaves the session's transaction aborted until it is   *)
(* rolled back.  call keeps the database and what the last run did.        *)

MaxRuns == 3          \* runs against one database

migrations == <<"001", "002", "003">>
Dialects == {"sqlite", "postgresql"}
Targets == {"None", "", "000", "001", "002", "003", "1"}

\* the order of Python strings on the versions and targets
StrRank(s) ==
    CASE s = "" -> 0
      [] s = "000" -> 1
      [] s = "001" -> 2
      [] s = "002" -> 3
      [] s = "003" -> 4
      [] s = "1" -> 5
StrLE(a, b) == StrRank(a) <= StrRank(b)
\* a target that is neither None nor the empty string
Truthy(target) == target \notin {"None", ""}

NoFault == [version |-> "none", step |-> "none"]
\* the statement of one migration that the database refuses
Faults ==
    {NoFault}
        \cup {[version |-> v, step |-> "up"] : v \in {"001", "002"}}
        \cup {[version |-> migrations[k], step |-> "record"] : k \in 1 .. Len(migrations)}
Faulty(fault, version, step) == fault = [version |-> version, step |-> step]

FreshDatabase(dialect) ==
    [dialect |-> dialect, table |-> FALSE, recorded |-> {}, schema |-> FALSE]

Event(op, version) == [op |-> op, version |-> version]
NoRun == [op |-> "none"]

\* SELECT version FROM migrations, or [] when the statement fails
get_applied_migrations(db) ==
    [versions |-> IF db.table THEN db.recorded ELSE {},
     aborted |-> ~db.table /\ db.dialect = "postgresql"]

\* migration.up(session): the database after it, or that it raised
MigrationUp(version, r, fault) ==
    CASE version = "001" ->
             IF r.aborted \/ Faulty(fault, version, "up")
             THEN [db |-> r.db, raises |-> TRUE]
             ELSE [db |-> [r.db EXCEPT !.table = TRUE], raises |-> FALSE]
      [] version = "002" ->
             IF Faulty(fault, version, "up")
             THEN [db |-> r.db, raises |-> TRUE]
             ELSE [db |-> [r.db EXCEPT !.schema = TRUE], raises |-> FALSE]
      [] version = "003" -> [db |-> r.db, raises |-> FALSE]

\* mutation: a migration that failed is rolled back and the run goes on
apply_migration_carry_on(version, r, fault) ==
    LET up == MigrationUp(version, r, fault)
        tried == Append(r.events, Event("up", version))
    IN  IF up.raises \/ Faulty(fault, version, "record") \/ ~up.db.table
           \/ version \in up.db.recorded
        THEN [r EXCEPT !.db = up.db, !.events = Append(tried, Event("rollback", version)),
                       !.aborted = FALSE]
        ELSE [r EXCEPT !.db = [up.db EXCEPT !.recorded = @ \cup {version}],
                       !.events = Append(tried, Event("record", version))]

apply_migration(version, r, fault) ==
    LET up == MigrationUp(version, r, fault)
        tried == Append(r.events, Event("up", version))
    IN  IF up.raises
        THEN [r EXCEPT !.events = Append(tried, Event("rollback", version)),
                       !.aborted = FALSE,
                       !.raised = Exception("up", version)]
        ELSE IF Faulty(fault, version, "record") \/ ~up.db.table
                \/ version \in up.db.recorded
        THEN [r EXCEPT !.db = up.db,
                       !.events = Append(tried, Event("rollback", version)),
                       !.aborted = FALSE,
                       !.raised = Exception("record", version)]
        ELSE [r EXCEPT !.db = [up.db EXCEPT !.recorded = @ \cup {version}],
                       !.events = Append(tried, Event("record", version))]

\* the loop of migrate_up from the k-th migration on
RECURSIVE UpLoop(_, _, _, _)
UpLoop(k, r, applied_migrations, fault) ==
    IF k > Len(migrations) \/ r.raised # NoException THEN r
    ELSE IF migrations[k] \in applied_migrations
    THEN UpLoop(k + 1, r, applied_migrations, fault)
    ELSE UpLoop(k + 1, apply_migration(migrations[k], r, fault),
                applied_migrations, fault)

migrate_up(db, fault) ==
    LET applied == get_applied_migrations(db)
    IN  UpLoop(1, [db |-> db, events |-> <<>>, raised |-> NoException,
                   aborted |-> applied.aborted],
               applied.versions, fault)

\* migration.down(session)
MigrationDown(version, db) ==
    CASE version = "001" -> [db EXCEPT !.table = FALSE, !.recorded = {}]
      [] version = "002" -> [db EXCEPT !.schema = FALSE]
      [] version = "003" -> db

rollback_migration(version, r) ==
    LET db == MigrationDown(version, r.db)
        tried == Append(r.events, Event("down", version))
    IN  IF ~db.table
        THEN [r EXCEPT !.db = db,
                       !.events = Append(tried, Event("rollback", version)),
                       !.aborted = FALSE,
                       !.raised = Exception("unrecord", version)]
        ELSE [r EXCEPT !.db = [db EXCEPT !.recorded = @ \ {version}],
                       !.events = Append(tried, Event("unrecord", version))]

\* the loop of migrate_down from the k-th migration down
RECURSIVE DownLoop(_, _, _, _)
DownLoop(k, r, applied_migrations, target_version) ==
    IF k < 1 \/ r.raised # NoException THEN r
    ELSE IF migrations[k] \notin applied_migrations
    THEN DownLoop(k - 1, r, applied_migrations, target_version)
    ELSE IF Truthy(target_version) /\ StrLE(migrations[k], target_version)
    THEN r
    ELSE DownLoop(k - 1, rollback_migration(migrations[k], r),
                  applied_migrations, target_version)

migrate_down(db, target_version) ==
    LET applied == get_applied_migrations(db)
    IN  DownLoop(Len(migrations),
                 [db |-> db, events |-> <<>>, raised |-> NoException,
                  aborted |-> applied.aborted],
                 applied.versions, target_version)

\* manage_db reset: migrate_down(), migrate_up(), seed_all(); exit 1 on error
reset_database(db) ==
    LET down == migrate_down(db, "None")
        up == migrate_up(down.db, NoFault)
    IN  IF down.raised # NoException
        THEN [down EXCEPT !.events = Append(@, Event("exit", "1"))]
        ELSE IF up.raised # NoException
        THEN [up EXCEPT !.events = down.events \o @ \o <<Event("exit", "1")>>]
        ELSE [up EXCEPT !.events = down.events \o @ \o <<Event("seed", "all")>>]

Ran(op, target, fault, done) ==
    [call EXCEPT !.db = done.db,
                 !.runs = @ + 1,
                 !.last = [op |-> op, target |-> target, fault |-> fault,
                           before |-> call.db, events |-> done.events,
                           raised |-> done.raised]]

\* migration_manager = MigrationManager(), on a database with no table yet
CallNewMigrationManager ==
    /\ call.fn = "none"
    /\ \E dialect \in Dialects :
           call' = [fn |-> "MigrationManager", db |-> FreshDatabase(dialect),
                    runs |-> 0, last |-> NoRun]
    /\ UNCHANGED pvars

CallMigrateUp ==
    /\ call.fn = "MigrationManager"
    /\ call.runs < MaxRuns
    /\ \E fault \in Faults :
           call' = Ran("migrate_up", "None", fault, migrate_up(call.db, fault))
    /\ UNCHANGED pvars

CallMigrateDown ==
    /\ call.fn = "MigrationManager"
    /\ call.runs < MaxRuns
    /\ \E target_version \in Targets :
           call' = Ran("migrate_down", target_version, NoFault,
                       migrate_down(call.db, target_version))
    /\ UNCHANGED pvars

CallResetDatabase ==
    /\ call.fn = "MigrationManager"
    /\ call.runs < MaxRuns
    /\ call' = Ran("reset", "None", NoFault, reset_database(call.db))
    /\ UNCHANGED pvars

FnNext ==
    \/ CallCalculateImpact
    \/ CallCalculateImpactV2
    \/ CallFormatTreeMessage
    \/ CallGetWeatherForecast
    \/ CallGeocodeLocation
    \/ CallFetchForRequest
    \/ CallGetPredictions
    \/ CallValidateEnvironmentalData
    \/ CallValidateGridData
    \/ CallNewValidationResult
    \/ CallAddValidRecord
    \/ CallAddInvalidRecord
    \/ CallStoreEnvironmentalData
    \/ CallStoreGridData
    \/ CallNewDataFetcher
    \/ CallAEnter
    \/ CallAExit
    \/ CallFetch
    \/ CallIngestionFetchEnvironmentalData
    \/ CallIngestionFetchGridData
    \/ CallNewMigrationManager
    \/ CallMigrateUp
    \/ CallMigrateDown
    \/ CallResetDatabase

SpecFn == FnInit /\ [][FnNext]_vars

-----------------------------------------------------------------------------
(* Two invocations of generate_predictions in one process.  They share the *)
(* module-level bundle; everything else is local to an invocation.  Each   *)
(* stage of an invocation is one step, and the steps of the two interleave *)
(* freely.                                                                 *)

Procs == {1, 2}

\* df["hour_of_day"] = df["datetime"].dt.hour
hour_of_day(ts) == ts % HoursPerDay

\* bundle = joblib.load(MODEL_PATH): a model that scores an hour of the day
\* 1 at its peak hours and 0 elsewhere, and the list of feature columns
PeakHours == {0, HoursPerDay - 1}
Bundles ==
    {[model |-> [h \in 0 .. HoursPerDay - 1 |-> IF h \in peak THEN 1 ELSE 0],
      features |-> <<"hour_of_day">>] : peak \in SUBSET PeakHours}

\* preprocess_input(df): the time columns, added to the frame passed in
preprocess_input(df) ==
    [k \in 1 .. Len(df) |->
        [datetime |-> df[k].datetime, hour_of_day |-> hour_of_day(df[k].datetime)]]

\* model.predict(xgb.DMatrix(df_proc[features]))
Predict(b, df) ==
    [k \in 1 .. Len(df) |-> b.model[df[k][b.features[1]]]]

\* lines 512-519: the frame with predicted_score and cleanliness_score
ScoreFrame(b, df) ==
    LET raws == Predict(b, df)
        cleanliness == Normalize(raws)
    IN  [k \in 1 .. Len(df) |->
            [datetime |-> df[k].datetime,
             hour_of_day |-> df[k].hour_of_day,
             predicted_score |-> raws[k],
             cleanliness_score |-> cleanliness[k]]]

\* mutation: an invocation re-fits the shared model
BundleAfterScoringRefit(b) ==
    [b EXCEPT !.model = [h \in DOMAIN b.model |-> 0]]

\* lines 511-519 assign to no module-level name: the bundle is left as loaded
BundleAfterScoring(b) == b

NoResult == [kind |-> "none", response |-> Unset, error |-> NoError]
Returned(resp) == [kind |-> "response", response |-> resp, error |-> NoError]
Failed(exc) == [kind |-> "error", response |-> Unset, error |-> ServiceExcept(exc)]

\* lines 521-569 on a scored frame: the ways the invocation can end
AfterScoring(r, df) ==
    IF r.day.kind = "invalid"
    THEN {Failed(Exception("ValueError", "day does not parse"))}
    ELSE LET kept == IF r.day.kind = "date" THEN OnDate(df, r.day.date) ELSE df
             s == [k \in 1 .. Len(kept) |-> kept[k].cleanliness_score]
             best == BestWindow(s, r.duration_hours)
             block == ILoc(kept, best[1], best[1] + r.duration_hours)
             resp ==
                 [predictions |-> [k \in 1 .. Len(kept) |-> PredictionPoint(kept[k])],
                  recommended_window |->
                      [start |-> block[1].datetime,
                       end |-> block[Len(block)].datetime,
                       average_cleanliness_score |-> Round1(best[2]),
                       impact |-> calculate_impact(
                                      Mean(SumSlice(s, 0, Len(s)), Len(s)),
                                      best[2], r.duration_hours)],
                  model_version |-> "weather_time_v1",
                  data_freshness |-> "live"]
         IN  IF kept = <<>>
             THEN {Failed(HTTPException(404, "No forecast data for day"))}
             ELSE (IF \A j \in 1 .. Len(s) : ScoreInRange(s[j]) \/ IsNaN(s[j])
                   THEN {Returned(resp)}
                   ELSE {})
                  \cup
                  (IF \E j \in 1 .. Len(s) : ~ScoreInRange(s[j])
                   THEN {Failed(Exception("ValidationError", "validation error"))}
                   ELSE {})

\* generate_predictions run on its own against the same answers and bundle
Alone(r, geocoder, weather, b) ==
    LET g == geocode_location(geocoder)
        w == get_weather_forecast(FullHorizon, weather)
    IN  IF ~g.ok THEN {Failed(g.exc)}
        ELSE IF ~w.ok THEN {Failed(w.exc)}
        ELSE AfterScoring(r, ScoreFrame(b, preprocess_input(w.value)))

\* the requests and upstream answers of the two invocations
ConcRequests ==
    {r \in Requests : /\ r.duration_hours <= 2
                      /\ \/ r.day.kind = "none" /\ r.duration_hours = 1
                         \/ r.day.kind = "date" /\ r.day.date = 1}
ConcGeocoderReplies ==
    {r \in Replies(ResultLists) : r.json /\ Len(r.document) <= 1}
ConcWeatherReplies ==
    {r \in Replies({Frame(HoursPerDay - 1, 2), Frame(0, 2)}) :
        r.json \/ r.status = 503}

ConcInit ==
    /\ pc = "idle"
    /\ req = [day |-> [kind |-> "none", date |-> 0], duration_hours |-> 1]
    /\ forecast_req = 0
    /\ df_proc = Unset
    /\ scores = Unset
    /\ best_start_idx = 0
    /\ best_avg = RNaN
    /\ best_block = Unset
    /\ impact = Unset
    /\ response = Unset
    /\ error = NoError
    /\ raised = NoException
    /\ weather_df = Unset
    /\ calls = <<>>
    /\ call = NoCall
    /\ bundle \in Bundles
    /\ procs \in [Procs -> [pc : {"start"}, req : ConcRequests,
                            geocoder : ConcGeocoderReplies,
                            weather : ConcWeatherReplies,
                            weather_df : {Unset}, df_proc : {Unset},
                            result : {NoResult}]]

\* lat, lon = geocode_location(location)
CGeocode(p) ==
    /\ procs[p].pc = "start"
    /\ LET g == geocode_location(procs[p].geocoder)
       IN  procs' = IF g.ok
                    THEN [procs EXCEPT ![p].pc = "geocoded"]
                    ELSE [procs EXCEPT ![p].pc = "error",
                                       ![p].result = Failed(g.exc)]
    /\ UNCHANGED <<rvars, call, bundle>>

\* weather_df = get_weather_forecast(lat, lon, hours_ahead=168)
CFetch(p) ==
    /\ procs[p].pc = "geocoded"
    /\ LET w == get_weather_forecast(FullHorizon, procs[p].weather)
       IN  procs' = IF w.ok
                    THEN [procs EXCEPT ![p].pc = "fetched",
                                       ![p].weather_df = w.value]
                    ELSE [procs EXCEPT ![p].pc = "error",
                                       ![p].result = Failed(w.exc)]
    /\ UNCHANGED <<rvars, call, bundle>>

\* df_proc = preprocess_input(weather_df)
CPreprocess(p) ==
    /\ procs[p].pc = "fetched"
    /\ LET df == preprocess_input(procs[p].weather_df)
       IN  procs' = [procs EXCEPT ![p].pc = "preprocessed",
                                  ![p].weather_df = df,
                                  ![p].df_proc = df]
    /\ UNCHANGED <<rvars, call, bundle>>

\* X = df_proc[features]; model.predict; the normalisation
CScore(p) ==
    /\ procs[p].pc = "preprocessed"
    /\ LET df == ScoreFrame(bundle, procs[p].df_proc)
       IN  procs' = [procs EXCEPT ![p].pc = "scored",
                                  ![p].weather_df = df,
                                  ![p].df_proc = df]
    /\ bundle' = BundleAfterScoring(bundle)
    /\ UNCHANGED <<rvars, call>>

\* the day filter, the window, the impact and the response
CFinish(p) ==
    /\ procs[p].pc = "scored"
    /\ \E out \in AfterScoring(procs[p].req, procs[p].df_proc) :
           procs' = [procs EXCEPT
                        ![p].pc = IF out.kind = "response" THEN "done" ELSE "error",
                        ![p].result = out]
    /\ UNCHANGED <<rvars, call, bundle>>

ConcNext ==
    \E p \in Procs :
        \/ CGeocode(p)
        \/ CFetch(p)
        \/ CPreprocess(p)
        \/ CScore(p)
        \/ CFinish(p)

SpecConc == ConcInit /\ [][ConcNext]_vars

-----------------------------------------------------------------------------
(* The ingestion cycle: run_ingestion_cycle gathers one                     *)
(* ingest_data_for_location task per location.  A task runs until it has   *)
(* to wait (the sleep between two attempts of a fetch) and the event loop  *)
(* then runs any task that is ready.  procs holds the tasks, call the      *)
(* cycle.                                                                  *)

MaxLocations == 2     \* locations of one ingestion cycle

LocationLists == UNION {[1 .. n -> IngestLocations] : n \in 0 .. MaxLocations}

\* per attempt, what the API call of a task's fetch does
TaskApiOutcomes ==
    {<<"ok", "ok", "ok">>,
     <<"RequestError", "ok", "ok">>,
     <<"RequestError", "RequestError", "RequestError">>}

NextStage(stage) == IF stage = "environmental" THEN "grid" ELSE "done"
ModelOf(stage) ==
    IF stage = "environmental" THEN "EnvironmentalDataCreate" ELSE "GridDataCreate"

\* results = {"environmental": False, "grid": False}
NoFlags == [environmental |-> FALSE, grid |-> FALSE]

NewTask(location, api) ==
    [location |-> location, api |-> api, stage |-> "environmental", attempt |-> 0,
     results |-> NoFlags, raised |-> NoException]

\* ingest_data_for_location from where the task stands to its next
\* await asyncio.sleep or to its return
RECURSIVE RunToAwait(_)
RunToAwait(t) ==
    IF t.stage = "done" THEN t
    ELSE LET tried == Attempt(ModelOf(t.stage), t.location, t.api[t.stage][t.attempt + 1])
             next == [t EXCEPT !.stage = NextStage(@), !.attempt = 0]
         IN  IF tried.exc = NoException
             THEN RunToAwait([next EXCEPT !.results[t.stage] = TRUE])
             ELSE IF tried.exc.type # "RequestError"
             THEN RunToAwait(next)
             ELSE IF t.attempt < retry_attempts - 1
             THEN [t EXCEPT !.attempt = @ + 1]
             ELSE RunToAwait(next)

\* what gather hands back for a task: its dict, or the exception it raised
EntryOf(t) == IF t.raised # NoException THEN NoFlags ELSE t.results

\* mutation: the results are paired with the locations in the order in
\* which the tasks finished
CollectAsCompleted(locations, tasks, finished) ==
    [l \in {locations[i] : i \in 1 .. Len(locations)} |->
        LET last == CHOOSE i \in 1 .. Len(locations) :
                        /\ locations[i] = l
                        /\ \A j \in 1 .. Len(locations) : locations[j] = l => j <= i
        IN  EntryOf(tasks[finished[last]])]

\* for location, result in zip(locations, ingestion_results)
Collect(locations, tasks, finished) ==
    [l \in {locations[i] : i \in 1 .. Len(locations)} |->
        LET last == CHOOSE i \in 1 .. Len(locations) :
                        /\ locations[i] = l
                        /\ \A j \in 1 .. Len(locations) : locations[j] = l => j <= i
        IN  EntryOf(tasks[last])]

IngestInit ==
    /\ pc = "idle"
    /\ req = [day |-> [kind |-> "none", date |-> 0], duration_hours |-> 1]
    /\ forecast_req = 0
    /\ df_proc = Unset
    /\ scores = Unset
    /\ best_start_idx = 0
    /\ best_avg = RNaN
    /\ best_block = Unset
    /\ impact = Unset
    /\ response = Unset
    /\ error = NoError
    /\ raised = NoException
    /\ weather_df = Unset
    /\ calls = <<>>
    /\ bundle = Unset
    /\ call \in {[fn |-> "run_ingestion_cycle", locations |-> locations,
                  phase |-> "gather", finished |-> <<>>, results |-> Unset] :
                    locations \in LocationLists}
    /\ procs \in UNION {[1 .. n -> {NewTask(l, [environmental |-> e, grid |-> g]) :
                                       l \in IngestLocations,
                                       e \in TaskApiOutcomes, g \in TaskApiOutcomes}] :
                           n \in 0 .. MaxLocations}
    /\ DOMAIN procs = 1 .. Len(call.locations)
    /\ \A i \in DOMAIN procs : procs[i].location = call.locations[i]

\* the event loop runs task i up to its next wait
IngestStep(i) ==
    /\ call.phase = "gather"
    /\ procs[i].stage # "done"
    /\ LET t == RunToAwait(procs[i])
       IN  /\ procs' = [procs EXCEPT ![i] = t]
           /\ call' = IF t.stage = "done"
                      THEN [call EXCEPT !.finished = Append(@, i)]
                      ELSE call
    /\ UNCHANGED <<rvars, bundle>>

\* gather returns once every task has finished; the loop fills results
CollectResults ==
    /\ call.phase = "gather"
    /\ \A i \in DOMAIN procs : procs[i].stage = "done"
    /\ call' = [call EXCEPT !.phase = "returned",
                            !.results = Collect(call.locations, procs, call.finished)]
    /\ UNCHANGED <<rvars, bundle, procs>>

IngestNext ==
    \/ \E i \in DOMAIN procs : IngestStep(i)
    \/ CollectResults

SpecIngest == IngestInit /\ [][IngestNext]_vars

-----------------------------------------------------------------------------

(* Properties *)

\* sum of s[lo .. hi], 1-based and inclusive
RECURSIVE Total(_, _, _)
Total(s, lo, hi) == IF lo > hi THEN 0 ELSE s[lo] + Total(s, lo + 1, hi)

WindowSelected == Len(scores) > 0
NumericScores == \A k \in 1 .. Len(scores) : ~IsNaN(scores[k])
\* sum of the duration_hours scores from 0-based start i
WSum(i) == Total(scores, i + 1, i + req.duration_hours)

\* C1: once the window search has run over scores that are numbers, with
\* duration_hours <= len(scores), best_start_idx is a start index in
\* 0 .. len(scores) - duration_hours whose window has the greatest mean, every
\* earlier start has a strictly smaller mean, and best_avg is that window's
\* mean; for duration_hours = 1 no hour scores higher than the chosen hour and
\* no earlier hour scores as high.  (All windows have duration_hours rows, so
\* means compare as sums.)
C1_EarliestBestWindow ==
    (WindowSelected /\ NumericScores /\ req.duration_hours <= Len(scores)) =>
        LET d == req.duration_hours
            last == Len(scores) - d
        IN  /\ best_start_idx \in 0 .. last
            /\ \A j \in 0 .. last : WSum(j) <= WSum(best_start_idx)
            /\ \A j \in 0 .. best_start_idx - 1 : WSum(j) < WSum(best_start_idx)
            /\ best_avg[2] > 0
            /\ best_avg[1] * 10 * d = WSum(best_start_idx) * best_avg[2]
            /\ d = 1 =>
                   /\ \A k \in 1 .. Len(scores) : scores[k] <= scores[best_start_idx + 1]
                   /\ \A k \in 1 .. best_start_idx : scores[k] < scores[best_start_idx + 1]

\* C1 witness: a search over windows of two or more hours in which the chosen
\* window is not the first one and a later window ties with it
C1_Witness ==
    /\ WindowSelected /\ NumericScores
    /\ req.duration_hours >= 2
    /\ req.duration_hours < Len(scores)
    /\ best_start_idx > 0
    /\ \E j \in best_start_idx + 1 .. Len(scores) - req.duration_hours :
           WSum(j) = WSum(best_start_idx)

\* C2 (as claimed): when duration_hours exceeds the number of scored hours
\* the window is selected from, no response with a recommended window is
\* returned.  Stated for scores that are numbers.
C2_InsufficientDataFails ==
    (WindowSelected /\ NumericScores /\ req.duration_hours > Len(scores)) =>
        pc # "done"

\* C3 (as claimed): the recommended window of a response covers exactly
\* duration_hours consecutive rows of the sequence it was selected from, and
\* start and end are the timestamps of its first and last row.  Stated for
\* scores that are numbers.
C3_WindowCoversDuration ==
    (pc = "done" /\ NumericScores) =>
        LET w == response.recommended_window
        IN  \E i \in 1 .. Len(df_proc) :
                /\ i + req.duration_hours - 1 <= Len(df_proc)
                /\ w.start = df_proc[i].datetime
                /\ w.end = df_proc[i + req.duration_hours - 1].datetime

\* the filter step with a date as day (used by C4)
C4_FilterStep ==
    (pc = "scored" /\ req.day.kind = "date" /\ pc' # pc) =>
        LET matches == {k \in 1 .. Len(df_proc) :
                            DateOf(df_proc[k].datetime) = req.day.date}
        IN  IF matches = {}
            THEN /\ pc' = "error"
                 /\ error' = HTTPException(404, "No forecast data for day")
                 /\ ~WindowSelected'
            ELSE /\ pc' = "filtered"
                 /\ Len(df_proc') = Cardinality(matches)
                 /\ {df_proc'[k] : k \in 1 .. Len(df_proc')} =
                        {df_proc[k] : k \in matches}
                 /\ \A k \in 1 .. Len(df_proc') - 1 :
                        df_proc'[k].datetime < df_proc'[k + 1].datetime

\* what the filter leaves to the later stages (used by C4)
C4_OnlyRowsOfDay ==
    /\ (WindowSelected /\ req.day.kind = "date") =>
           /\ Len(scores) = Len(df_proc)
           /\ \A k \in 1 .. Len(df_proc) :
                  /\ DateOf(df_proc[k].datetime) = req.day.date
                  /\ scores[k] = df_proc[k].cleanliness_score
    /\ pc = "done" => Len(best_block) > 0
    /\ (pc = "error" /\ error.detail = "No forecast data for day") =>
           /\ error.status_code = 404
           /\ ~WindowSelected

\* C4: with a date as day, the filter step either finds no row of the scored
\* frame on that UTC date and raises 404 "No forecast data" with no window
\* selected, or keeps exactly the rows of that date, in their order; the scores
\* the window is selected from are the scores of rows of that date only, and a
\* response never has an empty window.
C4_DayFilter == []C4_OnlyRowsOfDay /\ [][C4_FilterStep]_vars

\* C4 witness: the request failed with 404 because no row was on the given day
C4_Witness ==
    /\ pc = "error"
    /\ req.day.kind = "date"
    /\ error = HTTPException(404, "No forecast data for day")
    /\ df_proc = <<>>

\* the scoring step (used by C5)
C5_ScoreStep ==
    (pc = "fetched" /\ pc' = "scored") =>
        LET n == Len(df_proc')
            raw(k) == df_proc'[k].predicted_score
            score(k) == df_proc'[k].cleanliness_score
            IsMax(k) == \A j \in 1 .. n : raw(j) <= raw(k)
            IsMin(k) == \A j \in 1 .. n : raw(j) >= raw(k)
        IN  /\ n = Len(weather_df)
            /\ \A k \in 1 .. n : df_proc'[k].datetime = weather_df[k].datetime
            /\ (\E i, j \in 1 .. n : raw(i) # raw(j)) =>
                   \A k \in 1 .. n :
                       /\ score(k) >= 0 /\ score(k) <= 1000
                       /\ IsMax(k) => score(k) = 1000
                       /\ IsMin(k) => score(k) = 0
                       /\ \A j \in 1 .. n : raw(j) <= raw(k) => score(j) <= score(k)

\* C5: the scoring step keeps the rows and their order, and when the raw
\* scores are not all equal every cleanliness score lies in [0, 100], each row
\* with the greatest raw score gets 100.0, each row with the least gets 0.0,
\* and a row with a higher raw score never gets a lower cleanliness score.
C5_NormalizedRange == [][C5_ScoreStep]_vars

\* C5 witness: a scored batch with a row strictly between the extremes
C5_Witness ==
    /\ pc = "scored"
    /\ \E i, j, k \in 1 .. Len(df_proc) :
           /\ df_proc[i].cleanliness_score = 0
           /\ df_proc[j].cleanliness_score = 1000
           /\ df_proc[k].cleanliness_score > 0
           /\ df_proc[k].cleanliness_score < 1000

\* C6 (as claimed): when all raw scores of the batch are equal, every row of
\* the scored frame has the same cleanliness score, a number in [0, 100].
C6_ZeroVarianceDefined ==
    (pc = "scored" /\ \A i, j \in 1 .. Len(df_proc) :
                          df_proc[i].predicted_score = df_proc[j].predicted_score) =>
        \A k \in 1 .. Len(df_proc) :
            /\ ScoreInRange(df_proc[k].cleanliness_score)
            /\ df_proc[k].cleanliness_score = df_proc[1].cleanliness_score

\* C7: every figure calculate_impact returns (either definition of the file)
\* is >= 0, and is 0 unless best_score > avg_score.
C7_ImpactNonNegative ==
    /\ call.fn = "calculate_impact" =>
           /\ call.out.trees_planted_equiv >= 0
           /\ ~RGt(call.best_score, call.avg_score) =>
                  call.out.trees_planted_equiv = 0
    /\ call.fn = "calculate_impact_v2" =>
           /\ call.out.co2_saved_kg >= 0
           /\ call.out.trees_planted_equiv >= 0
           /\ call.out.km_car_avoided_equiv >= 0
           /\ ~RGt(call.best_score, call.avg_score) =>
                  /\ call.out.co2_saved_kg = 0
                  /\ call.out.trees_planted_equiv = 0
                  /\ call.out.km_car_avoided_equiv = 0

\* C7 witness: calculate_impact applied with best_score below avg_score
C7_Witness ==
    /\ call.fn = "calculate_impact"
    /\ RGt(call.avg_score, call.best_score)
    /\ call.duration_hours >= 2
    /\ call.out.trees_planted_equiv = 0

CutPoints == <<50, 150, 300, 500, 1000>>
Messages == <<MsgSapling, MsgTree, MsgTwoTrees, MsgGrove, MsgPatch, MsgForest>>
Rank(m) == CHOOSE k \in 1 .. Len(Messages) : Messages[k] = m
\* the message the claimed step function gives a value in hundredths: its
\* position is one more than the number of cut points at or below the value
StepMessage(t) ==
    Messages[1 + Cardinality({k \in 1 .. Len(CutPoints) : CutPoints[k] <= t})]

\* The kg figure of the claim, as a numerator over 100 * len(scores):
\* (mean of the chosen window - mean of all scores) / 10 * duration_hours
KgNumerator ==
    WSum(best_start_idx) * Len(scores) - Total(scores, 1, Len(scores)) * req.duration_hours

C9_StepValue ==
    /\ Cardinality({Messages[k] : k \in 1 .. Len(Messages)}) = 6
    /\ call.fn = "format_tree_message" =>
           call.out = StepMessage(call.trees)

\* two applications in a row (used by C9)
C9_Monotone ==
    (call.fn = "format_tree_message" /\ call'.fn = "format_tree_message"
        /\ call'.trees >= call.trees) => Rank(call'.out) >= Rank(call.out)

\* C9: format_tree_message returns, for every value, the message whose
\* position among the six distinct messages is one more than the number of cut
\* points 0.5, 1.5, 3, 5, 10 at or below the value; and of two applications the
\* one with the larger value never returns an earlier message.
C9_StepFunction == []C9_StepValue /\ [][C9_Monotone]_vars

\* C9 witness: the function applied exactly at the last cut point
C9_Witness ==
    /\ call.fn = "format_tree_message"
    /\ call.trees = 1000
    /\ call.out = MsgForest

\* C10: for hours_ahead >= 1 the forecast_days sent is between 1 and 7; below
\* 144 hours it is the d with 24 * (d - 1) <= hours_ahead < 24 * d and from 144
\* hours on it is 7; up to 168 hours 24 * forecast_days covers hours_ahead; and
\* the value of hours_ahead alone never makes the call fail: it fails exactly
\* when the weather service's answer is a failure.
C10_ForecastDaysClamped ==
    call.fn = "get_weather_forecast" =>
        LET h == call.hours_ahead
            d == call.forecast_days
        IN  /\ d >= 1 /\ d <= 7
            /\ h < 144 => (24 * (d - 1) <= h /\ h < 24 * d)
            /\ h >= 144 => d = 7
            /\ h <= 168 => 24 * d >= h
            /\ (call.error = NoError) <=> (call.reply.kind = "response" /\ call.reply.json)

\* C10 witness: more than 168 hours asked for, 7 days requested, no error
C10_Witness ==
    /\ call.fn = "get_weather_forecast"
    /\ call.hours_ahead > 168
    /\ call.forecast_days = 7
    /\ call.reply.json
    /\ call.error = NoError

\* C11: a request without day returns min(hours_ahead, 168) hourly rows when
\* the weather service answers with 24 rows per requested day.  (Violated:
\* the fetch always asks for 168 hours and nothing cuts the frame to
\* hours_ahead rows.)
C11_RowsFollowHoursAhead ==
    call.fn = "generate_predictions" =>
        /\ call.rows_fetched = Min(call.hours_ahead, FullHorizon)
        /\ call.predictions = Min(call.hours_ahead, FullHorizon)

\* a response with a 2xx status
Answered(reply) ==
    reply.kind = "response" /\ reply.status >= 200 /\ reply.status < 300
\* str(e) of the exceptions the upstream calls raise
UpstreamMessages ==
    {"connection failed", "Expecting value"}
        \cup {HTTPErrorText(status) : status \in UpstreamStatuses}

\* C12: geocode_location returns the first place of the geocoder's answer;
\* an answer with no place fails with 404 "Location not found"; a transport
\* failure or a non-2xx answer fails with 500 "Geocoding failed: ..."; and
\* the error is a 404 exactly when the geocoder answered with no place.
C12_GeocodeOutcomes ==
    call.fn = "geocode_location" =>
        LET reply == call.reply
            places == Answered(reply) /\ reply.json
        IN  /\ (places /\ reply.document # <<>>) =>
                   /\ call.error = NoError
                   /\ call.out = reply.document[1]
            /\ (places /\ reply.document = <<>>) =>
                   call.error = HTTPException(404, "Location not found")
            /\ ~Answered(reply) =>
                   /\ call.error.status_code = 500
                   /\ call.error.detail \in
                          {"Geocoding failed: " \o m : m \in UpstreamMessages}
            /\ (call.error.status_code = 404) <=> (places /\ reply.document = <<>>)

\* C12 witness: two different places in the answer, the first one returned
C12_Witness ==
    /\ call.fn = "geocode_location"
    /\ Len(call.reply.document) = 2
    /\ call.reply.document[1] # call.reply.document[2]
    /\ call.out = call.reply.document[1]
    /\ call.error = NoError

\* the detail of e names the upstream status
StatusInDetail(e, status) ==
    e.detail \in {prefix \o HTTPErrorText(status) :
                     prefix \in {"Weather API error: ", "Weather API fetch failed: "}}

\* C13 as stated: every non-2xx answer of the weather service makes
\* get_weather_forecast fail with an error that carries the upstream status.
\* (Violated by an answer such as 304, which raise_for_status lets through.)
C13_StatusPreserved ==
    (call.fn = "get_weather_forecast" /\ call.reply.kind = "response"
        /\ ~Answered(call.reply)) =>
        /\ call.error # NoError
        /\ StatusInDetail(call.error, call.reply.status)

\* C13: a 4xx or 5xx answer makes get_weather_forecast fail with status 400
\* and the detail "Weather API error: <status> Client|Server Error", which no
\* other upstream status gives; a transport failure and any other answer
\* that is not a readable 2xx forecast fail with status 500 and a detail
\* "Weather API fetch failed: ..." that does not carry the status.
C13_ErrorStatusReported ==
    call.fn = "get_weather_forecast" =>
        LET reply == call.reply
        IN  /\ (reply.kind = "response" /\ raise_for_status(reply.status)) =>
                /\ call.error =
                       HTTPException(400, "Weather API error: "
                                              \o HTTPErrorText(reply.status))
                /\ \A other \in UpstreamStatuses \ {reply.status} :
                       ~StatusInDetail(call.error, other)
            /\ (reply.kind = "failure"
                   \/ (~raise_for_status(reply.status) /\ ~reply.json)) =>
                /\ call.error.status_code = 500
                /\ call.error.detail \in
                       {"Weather API fetch failed: " \o m :
                           m \in {"connection failed", "Expecting value"}}

\* C13 witness: an upstream 404 reported as 400 with the status in the detail
C13_Witness ==
    /\ call.fn = "get_weather_forecast"
    /\ call.reply.status = 404
    /\ call.error.status_code = 400
    /\ StatusInDetail(call.error, 404)

\* the positions of generate_predictions in program order (used by C14)
Stages ==
    <<"start", "geocoded", "fetched", "scored", "filtered", "selected",
      "estimated", "done">>
Position(p) == CHOOSE k \in 1 .. Len(Stages) : Stages[k] = p

\* one step of a request (used by C14): it leaves a position that is not
\* final, for the next position or for the error; the geocoder is called
\* first and from the start only, the weather service second and only from
\* the position a successful geocoding leads to
C14_StageStep ==
    /\ pc \notin {"done", "error"}
    /\ pc' = "error" \/ Position(pc') = Position(pc) + 1
    /\ calls' # calls =>
           \/ pc = "start" /\ calls = <<>> /\ calls' = <<"geocoder">>
           \/ pc = "geocoded" /\ calls = <<"geocoder">>
                 /\ calls' = <<"geocoder", "weather">>
    /\ calls' = calls => pc \notin {"start", "geocoded"}

\* what has run at each position (used by C14)
C14_StagesRun ==
    /\ calls \in {<<>>, <<"geocoder">>, <<"geocoder", "weather">>}
    /\ (pc = "error") <=> (error # NoError)
    /\ (pc = "error" /\ Len(calls) = 1) => forecast_req = 0
    /\ (pc = "error" /\ Len(weather_df) = 0) =>
           \* the geocoder or the weather service failed
           /\ Len(df_proc) = 0 /\ Len(scores) = 0 /\ Len(best_block) = 0
           /\ impact = Unset /\ response = Unset
    /\ pc \in {"start", "geocoded", "fetched"} =>
           Len(df_proc) = 0 /\ Len(scores) = 0 /\ impact = Unset
    /\ pc # "done" => response = Unset
    /\ pc = "done" =>
           /\ calls = <<"geocoder", "weather">>
           /\ Len(scores) > 0 /\ Len(best_block) > 0
           /\ impact # Unset /\ response # Unset

\* C14: the stages of a request run in program order, one after the other;
\* the geocoder and the weather service are each called at most once, the
\* weather service only after the geocoder succeeded; a failure of either
\* ends the request with an error, with no further call and no later stage.
C14_StagesInOrder == []C14_StagesRun /\ [][C14_StageStep]_vars

\* C14 witness: a request ran through every stage
C14_Witness ==
    /\ pc = "done"
    /\ calls = <<"geocoder", "weather">>
    /\ response # Unset

\* C15: a failed request has no response and one error; an HTTPException
\* raised inside generate_predictions leaves it, and then the route, with
\* status and detail unchanged; any other exception leaves as a 500 whose
\* detail is the exception's message, which the route passes on unchanged.
C15_ErrorsPropagate ==
    /\ (pc = "error") <=> (raised # NoException)
    /\ pc = "error" =>
           /\ response = Unset
           /\ error # NoError
           /\ RouteExcept(error) = error
           /\ IsHTTPException(raised) => error = raised
           /\ ~IsHTTPException(raised) =>
                  /\ error.status_code = 500
                  /\ error.detail = raised.message

\* C15 witness: the geocoder's 404 reached the caller as it was raised
C15_Witness ==
    /\ pc = "error"
    /\ raised = HTTPException(404, "Location not found")
    /\ RouteExcept(error) = raised

\* C16: in a successful response over numeric scores the window starts at
\* the row of best_start_idx, ends duration_hours - 1 rows later (at the same
\* row for one hour), and its average is the mean of those rows' scores
\* rounded to one decimal.  (Violated when fewer rows than duration_hours
\* were left: the window ends at the last row and the average is -1.0.)
C16_WindowOfResponse ==
    (pc = "done" /\ NumericScores) =>
        LET w == response.recommended_window
            first == best_start_idx + 1
            last == best_start_idx + req.duration_hours
        IN  /\ last <= Len(df_proc)
            /\ w.start = df_proc[first].datetime
            /\ w.end = df_proc[last].datetime
            /\ req.duration_hours = 1 => w.start = w.end
            /\ w.average_cleanliness_score =
                   RoundHalfEven(Total(scores, first, last), req.duration_hours)

\* C17 as stated: the predictions of a successful response are the hours of
\* the whole scored frame, one entry each, in order, with their scores.
\* (Violated when a day filter removed rows.)
C17_AllScoredHours ==
    pc = "done" =>
        LET p == response.predictions
        IN  /\ Len(p) = Len(weather_df)
            /\ \A k \in 1 .. Len(p) :
                   /\ p[k].timestamp = weather_df[k].datetime
                   /\ p[k].cleanliness_score = weather_df[k].cleanliness_score

\* C17: the predictions of a successful response are the scored hours the
\* window was selected from, one entry each, in ascending timestamp order and
\* with their scores: every scored hour when no day was given, the scored
\* hours of that day otherwise; confidence and carbon_intensity are null, and
\* the response carries the model version tag and data_freshness "live".
C17_PredictionsOfSelection ==
    pc = "done" =>
        LET p == response.predictions
            kept == {k \in 1 .. Len(weather_df) :
                        \/ req.day.kind = "none"
                        \/ DateOf(weather_df[k].datetime) = req.day.date}
        IN  /\ Len(p) = Cardinality(kept)
            /\ \A k \in kept : \E j \in 1 .. Len(p) :
                   /\ p[j].timestamp = weather_df[k].datetime
                   /\ p[j].cleanliness_score = weather_df[k].cleanliness_score
            /\ \A j \in 1 .. Len(p) - 1 : p[j].timestamp < p[j + 1].timestamp
            /\ \A j \in 1 .. Len(p) :
                   p[j].confidence = "null" /\ p[j].carbon_intensity = "null"
            /\ response.model_version = "weather_time_v1"
            /\ response.data_freshness = "live"

\* C17 witness: a response for one day of a frame that spans two days
C17_Witness ==
    /\ pc = "done"
    /\ req.day.kind = "date"
    /\ Len(response.predictions) >= 2
    /\ Len(response.predictions) < Len(weather_df)

\* every finished invocation ended as it can end when run alone (used by C18)
C18_SameAsAlone ==
    \A p \in Procs :
        IF procs[p].pc \in {"done", "error"}
        THEN procs[p].result \in
                 Alone(procs[p].req, procs[p].geocoder, procs[p].weather, bundle)
        ELSE procs[p].result = NoResult

\* no step of an invocation writes the bundle (used by C18)
C18_BundleReadOnly == bundle' = bundle

\* C18: under every interleaving of the stages of two invocations, each
\* invocation ends with a response or error it can end with when run alone
\* on the same request and upstream answers, and the shared bundle (model
\* and feature list) is never written.
C18_Independent == []C18_SameAsAlone /\ [][C18_BundleReadOnly]_vars

\* C18 witness: both invocations returned, with different responses
C18_Witness ==
    /\ procs # Unset
    /\ procs[1].result.kind = "response"
    /\ procs[2].result.kind = "response"
    /\ procs[1].result.response # procs[2].result.response

\* C19: GET /api/v1/predictions with no query parameter answers 200 with a
\* body that names the location and holds exactly 24 prediction points with
\* scores in [0, 100].  (Violated: location has no default, the answer is
\* 422.)
C19_DefaultGetAnswers ==
    (call.fn = "get_predictions" /\ call.query.given = {}) =>
        /\ call.status = 200
        /\ "location" \in DOMAIN call.body
        /\ Len(call.body.predictions) = 24
        /\ \A k \in 1 .. 24 :
               ScoreInRange(call.body.predictions[k].cleanliness_score)

\* the positions, in a list of a validation result, of input object k
Places_of(list, k) == {j \in 1 .. Len(list) : list[j].obj = k}

\* C20: validate_environmental_data and validate_grid_data put every input
\* record into exactly one of valid_records and invalid_records, once; the
\* total is the number of input records; each list keeps the input order;
\* errors holds one message per invalid record, in the same order and
\* numbered with the record's input index; an empty input gives a valid
\* result with no records.
C20_ClassifiedOnce ==
    call.fn \in {"validate_environmental_data", "validate_grid_data"} =>
        LET n == Len(call.records)
            valid == call.out.valid_records
            invalid == call.out.invalid_records
        IN  /\ total_records(call.out) = n
            /\ \A k \in 1 .. n :
                   Cardinality(Places_of(valid, k))
                       + Cardinality(Places_of(invalid, k)) = 1
            /\ \A j \in 1 .. Len(valid) - 1 : valid[j].obj < valid[j + 1].obj
            /\ \A j \in 1 .. Len(invalid) - 1 : invalid[j].obj < invalid[j + 1].obj
            /\ Len(call.out.errors) = Len(invalid)
            /\ \A j \in 1 .. Len(invalid) :
                   call.out.errors[j].index = invalid[j].obj - 1
            /\ n = 0 => is_valid(call.out) /\ total_records(call.out) = 0

\* C20 witness: three grid records, the second invalid, the others valid
C20_Witness ==
    /\ call.fn = "validate_grid_data"
    /\ Len(call.records) = 3
    /\ Len(call.out.valid_records) = 2
    /\ call.out.valid_records[2].obj = 3
    /\ Len(call.out.invalid_records) = 1
    /\ call.out.errors[1].index = 1

\* the counts of a ValidationResult after any adds (used by C21)
C21_Counts ==
    call.fn = "ValidationResult" =>
        LET result == call.result
        IN  /\ Len(result.errors) = Len(result.invalid_records)
            /\ Len(result.valid_records) = call.valid_added
            /\ Len(result.invalid_records) = call.invalid_added
            /\ total_records(result) = call.valid_added + call.invalid_added
            /\ is_valid(result) <=> (call.invalid_added = 0)

\* one add on a ValidationResult (used by C21)
C21_AddStep ==
    (call.fn = "ValidationResult" /\ call'.fn = "ValidationResult") =>
        LET before == call.result
            after == call'.result
        IN  /\ call'.valid_added > call.valid_added =>
                   /\ after.invalid_records = before.invalid_records
                   /\ after.errors = before.errors
                   /\ Len(after.valid_records) = Len(before.valid_records) + 1
            /\ call'.invalid_added > call.invalid_added =>
                   /\ after.valid_records = before.valid_records
                   /\ Len(after.invalid_records) = Len(before.invalid_records) + 1

\* C21: after any sequence of add_valid_record and add_invalid_record calls
\* errors is as long as invalid_records, total_records is the number of
\* records added, and is_valid holds exactly when no invalid record was
\* added; add_valid_record leaves invalid_records and errors as they were
\* and add_invalid_record leaves valid_records as it was.
C21_ResultCounts == []C21_Counts /\ [][C21_AddStep]_vars

\* C21 witness: a valid record, then an invalid one, then a valid one
C21_Witness ==
    /\ call.fn = "ValidationResult"
    /\ call.valid_added = 2
    /\ call.invalid_added = 1
    /\ ~is_valid(call.result)
    /\ total_records(call.result) = 3

\* the required fields of a record are there and well formed (used by C22)
C22_HasRequired(f) == f.timestamp \in {"iso", "datetime"} /\ f.location \notin {"none", ""}

\* the record given as the i-th one is among the valid ones (used by C22)
C22_Valid(out, i) == \E j \in 1 .. Len(out.valid_records) : out.valid_records[j].obj = i

\* an error of the i-th record gives this reason (used by C22)
C22_Reason(out, i, reason) ==
    \E j \in 1 .. Len(out.errors) :
        /\ out.invalid_records[j].obj = i
        /\ out.errors[j].index = i - 1
        /\ \E k \in 1 .. Len(out.errors[j].reasons) : out.errors[j].reasons[k] = reason

\* C22: a record with its required fields is invalid when a range-checked
\* field is outside its inclusive range and valid when all present fields
\* are inside: temperature in [-50, 60] for environmental records and
\* carbon_intensity in [0, 1000] for grid records, the bounds themselves
\* accepted, and the error message names the violated range.
C22_RangeChecked ==
    /\ call.fn = "validate_environmental_data" =>
           \A i \in 1 .. Len(call.records) :
               LET f == call.records[i].fields
                   temperature_ok ==
                       f.temperature = None \/ (f.temperature >= 0 - 50 /\ f.temperature <= 60)
                   humidity_ok == f.humidity = None \/ (f.humidity >= 0 /\ f.humidity <= 100)
               IN  C22_HasRequired(f) =>
                       /\ C22_Valid(call.out, i) <=> (temperature_ok /\ humidity_ok)
                       /\ ~temperature_ok =>
                              C22_Reason(call.out, i,
                                         "Temperature must be between -50 and 60 C")
    /\ call.fn = "validate_grid_data" =>
           \A i \in 1 .. Len(call.records) :
               LET f == call.records[i].fields
                   carbon_ok ==
                       f.carbon_intensity = None
                           \/ (f.carbon_intensity >= 0 /\ f.carbon_intensity <= 1000)
                   demand_ok == f.total_demand = None \/ f.total_demand >= 0
               IN  C22_HasRequired(f) =>
                       /\ C22_Valid(call.out, i) <=> (carbon_ok /\ demand_ok)
                       /\ ~carbon_ok =>
                              C22_Reason(call.out, i,
                                  "Carbon intensity must be between 0 and 1000 gCO2/kWh")

\* C22 witness: grid records at the upper bound and just above it, the
\* first accepted and the second refused
C22_Witness ==
    /\ call.fn = "validate_grid_data"
    /\ Len(call.records) = 2
    /\ call.records[1].fields.carbon_intensity = 1000
    /\ call.records[2].fields.carbon_intensity = 1001
    /\ C22_Valid(call.out, 1)
    /\ ~C22_Valid(call.out, 2)

\* a store call (used by C23 and C24)
StoreCalled == call.fn \in {"store_environmental_data", "store_grid_data"}

\* how often a method of the session was called (used by C23 and C24)
TimesCalled(method) ==
    Cardinality({k \in 1 .. Len(call.done.calls) : call.done.calls[k] = method})

\* the database raised while the records were stored (used by C23)
DatabaseRaised ==
    /\ StoreCalled
    /\ \E k \in 1 .. Len(call.done.calls) :
           /\ call.done.calls[k] \in {"execute", "commit"}
           /\ call.db[call.done.calls[k]] # "ok"

\* the error the failing statement raised (used by C23)
OriginalError ==
    IF call.db.execute # "ok"
    THEN Exception(call.db.execute, "execute")
    ELSE Exception(call.db.commit, "commit")

\* C23 as stated: when the database raises while a non-empty list is
\* stored, the session is rolled back exactly once, commit is never called
\* and the original error is re-raised instead of a count being returned.
C23_NoCommitOnError ==
    DatabaseRaised =>
        /\ TimesCalled("rollback") = 1
        /\ TimesCalled("commit") = 0
        /\ call.done.raised = OriginalError
        /\ call.done.out = Unset

\* C23 amended: when execute or commit raises while a non-empty list is
\* stored, rollback is called exactly once and is the last call on the
\* session, no commit completes (commit is not called after a failed
\* execute and is called once when it is the commit that fails), no count
\* is returned, and the caller gets the original error unless the rollback
\* raises too, in which case the caller gets the error of the rollback.
C23_RolledBackOnce ==
    DatabaseRaised =>
        /\ Len(call.records) > 0
        /\ TimesCalled("rollback") = 1
        /\ call.done.calls[Len(call.done.calls)] = "rollback"
        /\ TimesCalled("execute") = 1
        /\ TimesCalled("commit") = (IF call.db.execute # "ok" THEN 0 ELSE 1)
        /\ call.done.out = Unset
        /\ call.done.raised # NoException
        /\ call.db.rollback = "ok" => call.done.raised = OriginalError
        /\ call.db.rollback # "ok" =>
               call.done.raised = Exception(call.db.rollback, "rollback")

\* C23 witness: the commit of a stored list raises and the error is re-raised
C23_Witness ==
    /\ DatabaseRaised
    /\ call.done.calls = <<"execute", "commit", "rollback">>
    /\ call.done.raised = Exception("SQLAlchemyError", "commit")

\* C24: a store call that returns gives the number of records it was
\* given: for a non-empty list the session saw one execute, then one
\* commit, and no rollback; for an empty list the result is 0 and the
\* session saw no call at all.
C24_StoredCount ==
    (StoreCalled /\ call.done.raised = NoException) =>
        /\ call.done.out = Len(call.records)
        /\ Len(call.records) > 0 => call.done.calls = <<"execute", "commit">>
        /\ Len(call.records) = 0 => call.done.calls = <<>>

\* C24 witness: two records are stored and their number is returned
C24_Witness ==
    /\ StoreCalled
    /\ Len(call.records) = 2
    /\ call.done.raised = NoException
    /\ call.done.calls = <<"execute", "commit">>
    /\ call.done.out = 2

\* a fetch has just been made on the fetcher (used by C25 and C26)
FetchMade == call.fn = "DataFetcher" /\ call.last.fn # "none"

\* C25: fetch_environmental_data and fetch_grid_data dispatch on the
\* source: "mock" reads the mock file and returns its records as they are,
\* or fails with FileNotFoundError when the file is missing; "api" and a
\* source starting with "http" go to the HTTP path; every other source
\* fails with ValueError "Unsupported data source" and neither reads a
\* file nor makes a request.
C25_DispatchOnSource ==
    FetchMade =>
        LET last == call.last
            done == last.done
            http == last.source = "api" \/ StartsWithHttp(last.source)
        IN  /\ last.source = "mock" =>
                   /\ ~done.requested
                   /\ call.self.files[last.kind] = "records" =>
                          /\ done.raised = NoException
                          /\ done.out = MockData(last.kind)
                          /\ done.read
                   /\ call.self.files[last.kind] = "missing" =>
                          /\ done.raised = Exception("FileNotFoundError", last.kind)
                          /\ ~done.read
            /\ http =>
                   /\ ~done.read
                   /\ done.requested <=> (last.session = "open")
                   /\ done.raised # NoException => done.raised.type # "ValueError"
            /\ (last.source # "mock" /\ ~http) =>
                   /\ done.raised =
                          Exception("ValueError", "Unsupported data source: " \o last.source)
                   /\ done.out = Unset
                   /\ ~done.read
                   /\ ~done.requested

\* C25 witness: an unknown source is refused and the mock file is read
\* for "mock"
C25_Witness ==
    /\ FetchMade
    /\ call.fetches = 2
    /\ call.reads = 1
    /\ call.last.source = "Mock"
    /\ call.last.done.raised.type = "ValueError"

\* the session of a fetcher before, inside and after its context, and
\* what an HTTP fetch did there (used by C26)
C26_SessionOfContext ==
    call.fn = "DataFetcher" =>
        /\ call.entered = 0 => call.self.session = "None"
        /\ call.inside => call.self.session = "open"
        /\ (~call.inside /\ call.entered > 0) => call.self.session = "closed"
        /\ (call.last.fn # "none"
              /\ (call.last.source = "api" \/ StartsWithHttp(call.last.source))) =>
               /\ call.last.done.requested <=> call.last.inside
               /\ ~call.last.inside =>
                      /\ call.last.done.raised.type = "RuntimeError"
                      /\ call.last.done.out = Unset

\* a request is sent only by a fetcher inside its context (used by C26)
C26_RequestStep ==
    (call.fn = "DataFetcher" /\ call'.fn = "DataFetcher"
        /\ call'.requests # call.requests) =>
        /\ call.inside
        /\ call.self.session = "open"
        /\ call'.requests = call.requests + 1

\* C26: a DataFetcher has no session before its async context is entered,
\* an open session inside the context and a closed session after it; HTTP
\* fetches are performed only inside the context, and an HTTP fetch made
\* before entry or after exit fails with RuntimeError and sends no request.
C26_SessionLifecycle == []C26_SessionOfContext /\ [][C26_RequestStep]_vars

\* C26 witness: an HTTP fetch made after the context was left is refused
C26_Witness ==
    /\ FetchMade
    /\ call.entered = 1
    /\ ~call.inside
    /\ call.last.session = "closed"
    /\ StartsWithHttp(call.last.source)
    /\ call.last.done.raised.type = "RuntimeError"
    /\ call.requests = 0

\* a fetch of the ingestion service (used by C27)
IngestionFetched ==
    call.fn \in {"DataIngestionService.fetch_environmental_data",
                 "DataIngestionService.fetch_grid_data"}

\* the attempts and the waits of the fetch, in order (used by C27)
EventsOf(op) ==
    LET IsOp(e) == e.op = op
        hit == SelectSeq(call.done.events, IsOp)
    IN  [k \in 1 .. Len(hit) |-> hit[k].arg]

\* C27: the two fetches of DataIngestionService retry request errors with
\* exponential backoff: at most retry_attempts (3) attempts are made, the
\* wait before attempt k+1 is retry_delay * 2^(k-1) (1 s, then 2 s), no
\* wait follows the last attempt, the data of the first attempt that
\* succeeds is returned at once, and when all attempts fail None is
\* returned and nothing is raised.
C27_RetryWithBackoff ==
    IngestionFetched =>
        LET attempts == EventsOf("attempt")
            waits == EventsOf("sleep")
            events == call.done.events
            made == Len(attempts)
            request_errors ==
                {k \in 1 .. retry_attempts : call.api[k] = "RequestError"}
        IN  /\ made >= 1 /\ made <= retry_attempts
            /\ attempts = [k \in 1 .. made |-> k]
            \* one wait between two attempts, and none after the last
            /\ Len(events) = 2 * made - 1
            /\ \A k \in 1 .. made : events[2 * k - 1].op = "attempt"
            /\ waits = SubSeq(<<1, 2>>, 1, made - 1)
            \* every attempt but the last one made met a request error
            /\ \A k \in 1 .. made - 1 : k \in request_errors
            \* a request error before the last attempt is retried
            /\ (made < retry_attempts) => made \notin request_errors
            /\ (made \notin request_errors /\ call.location = "Toronto") =>
                   call.done.out = [model |-> call.model, location |-> call.location]
            /\ (1 .. retry_attempts) \subseteq request_errors =>
                   /\ made = retry_attempts
                   /\ call.done.out = NoData

\* C27 witness: two request errors, waits of 1 s and 2 s, then data
C27_Witness ==
    /\ IngestionFetched
    /\ call.api = <<"RequestError", "RequestError", "ok">>
    /\ call.location = "Toronto"
    /\ EventsOf("sleep") = <<1, 2>>
    /\ call.done.out = [model |-> call.model, location |-> "Toronto"]

\* the last run against the database was this operation (used by C28, C29)
LastRun(op) == call.fn = "MigrationManager" /\ call.last.op = op

\* the versions of the events of one kind of the last run, in order
\* (used by C28 and C29)
VersionsOf(op) ==
    LET IsOp(e) == e.op = op
        hit == SelectSeq(call.last.events, IsOp)
    IN  [k \in 1 .. Len(hit) |-> hit[k].version]

\* the versions recorded as applied in a database (used by C28 and C29)
Recorded(db) == IF db.table THEN db.recorded ELSE {}

\* the migrations not recorded before the last run, in list order
\* (used by C28)
Pending ==
    LET NotApplied(v) == v \notin Recorded(call.last.before)
    IN  SelectSeq(migrations, NotApplied)

\* what one run of migrate_up did (used by C28)
C28_UpRun ==
    LastRun("migrate_up") =>
        LET events == call.last.events
            ups == VersionsOf("up")
            records == VersionsOf("record")
            rollbacks == VersionsOf("rollback")
            failed == call.last.raised # NoException
        IN  \* the up steps are those of the pending migrations, in list order
            /\ Len(ups) <= Len(Pending)
            /\ ups = SubSeq(Pending, 1, Len(ups))
            \* each version is recorded right after its up step
            /\ \A i \in 1 .. Len(events) :
                   events[i].op = "up" =>
                       /\ i < Len(events)
                       /\ events[i + 1].version = events[i].version
                       /\ events[i + 1].op \in {"record", "rollback"}
            /\ \A i \in 1 .. Len(events) :
                   events[i].op = "record" =>
                       i > 1 /\ events[i - 1] = Event("up", events[i].version)
            /\ Recorded(call.db) =
                   Recorded(call.last.before) \cup {records[k] : k \in 1 .. Len(records)}
            \* a run without failure applies every pending migration
            /\ ~failed => (ups = Pending /\ records = Pending /\ rollbacks = <<>>)
            \* a failure is rolled back, propagates, and ends the run
            /\ failed =>
                   /\ Len(rollbacks) = 1
                   /\ events[Len(events)] = Event("rollback", ups[Len(ups)])
                   /\ Len(records) = Len(ups) - 1

\* a migrate_up right after a successful one (used by C28)
C28_SecondRun ==
    (LastRun("migrate_up") /\ call.last.raised = NoException
        /\ call'.fn = "MigrationManager" /\ call'.runs = call.runs + 1
        /\ call'.last.op = "migrate_up") =>
        /\ call'.last.events = <<>>
        /\ call'.last.raised = NoException
        /\ call'.db = call.db

\* C28: migrate_up applies exactly the migrations whose version is not
\* recorded as applied, in list order 001, 002, 003, recording each
\* version right after its up step; if a migration fails the session is
\* rolled back, the error propagates and no later migration is applied;
\* a migrate_up right after a successful one applies nothing.
C28_PendingApplied == []C28_UpRun /\ [][C28_SecondRun]_vars

\* C28 witness: with 001 recorded, the up step of 002 fails; it is rolled
\* back and 003 is not applied
C28_Witness ==
    /\ LastRun("migrate_up")
    /\ call.last.events = <<Event("up", "001"), Event("record", "001"),
                            Event("up", "002"), Event("rollback", "002")>>
    /\ call.last.raised # NoException
    /\ Recorded(call.db) = {"001"}

\* C29: migrate_down(target_version) rolls applied migrations back in
\* descending version order and stops at the first applied migration whose
\* version is <= target_version; when it returns, the versions recorded as
\* applied are exactly the previously applied versions <= target_version;
\* with no target it rolls back every applied migration and completes
\* without error, so that reset (migrate_down, migrate_up, seed) proceeds.
C29_DownToTarget ==
    /\ LastRun("migrate_down") =>
           LET downs == VersionsOf("down")
               target == call.last.target
               applied == Recorded(call.last.before)
               kept == IF Truthy(target)
                       THEN {v \in applied : StrLE(v, target)}
                       ELSE {}
           IN  /\ \A i \in 1 .. Len(downs) : downs[i] \in applied \ kept
               /\ \A i, j \in 1 .. Len(downs) :
                      i < j => ~StrLE(downs[i], downs[j])
               /\ call.last.raised = NoException => Recorded(call.db) = kept
               /\ ~Truthy(target) =>
                      /\ call.last.raised = NoException
                      /\ {downs[i] : i \in 1 .. Len(downs)} = applied
    /\ LastRun("reset") =>
           /\ call.last.raised = NoException
           /\ Event("exit", "1") \notin {call.last.events[i] :
                                            i \in 1 .. Len(call.last.events)}

\* the cycle has returned its result map (used by C30)
CycleReturned == call.fn = "run_ingestion_cycle" /\ call.phase = "returned"

\* a fetch of the task returned data, worked out from the whole retry loop
\* (used by C30)
FetchReturnedData(t, stage) ==
    RetryLoop(ModelOf(stage), t.location, t.api[stage], 0, <<>>).out # NoData

\* C30: run_ingestion_cycle returns a map with exactly one entry per
\* requested location for every interleaving of the per-location tasks: a
\* location whose ingestion raised is recorded as {environmental: False,
\* grid: False}, no task changes or removes the entry of another location,
\* and each flag of an entry is True exactly when the corresponding fetch
\* of that location's task returned data.
C30_OneEntryPerLocation ==
    CycleReturned =>
        LET locations == call.locations
            results == call.results
        IN  /\ DOMAIN results = {locations[i] : i \in 1 .. Len(locations)}
            /\ Len(call.finished) = Len(locations)
            /\ \A i \in 1 .. Len(locations) :
                   (\A j \in 1 .. Len(locations) : locations[j] = locations[i] => j <= i) =>
                       LET entry == results[locations[i]]
                           t == procs[i]
                       IN  /\ DOMAIN entry = {"environmental", "grid"}
                           /\ t.raised # NoException => entry = NoFlags
                           /\ t.raised = NoException =>
                                  /\ entry.environmental
                                         <=> FetchReturnedData(t, "environmental")
                                  /\ entry.grid <=> FetchReturnedData(t, "grid")

\* C30 witness: the second task finished first, and the two locations
\* have different entries
C30_Witness ==
    /\ CycleReturned
    /\ call.finished = <<2, 1>>
    /\ call.locations = <<"Toronto", "over 100 characters">>
    /\ call.results["Toronto"] = [environmental |-> TRUE, grid |-> FALSE]
    /\ call.results["over 100 characters"] = NoFlags

====
